---- MODULE Spec2Model ----
(***************************************************************************)
(* A model of the privacy-screen risk pipeline: the hysteresis decision    *)
(* engine (src/src/decision.py), the face detector and its greedy overlap  *)
(* suppression (src/src/detector.py), the verifier (src/src/verify.py),    *)
(* the embedder (src/src/embedder.py), the camera stream                   *)
(* (src/src/camera.py), the pipeline driver (src/src/main.py) and the      *)
(* enrollment flow (src/enroll.py).                                        *)
(*                                                                         *)
(* Numbers.  Python floats are modelled as exact rationals:                *)
(*   - a normalized coordinate in [0,1] is an integer number of 1/Units    *)
(*     steps, so a box area is an integer number of cells of 1/Units^2;    *)
(*   - a threshold on a ratio is a record [num, den];                      *)
(*   - time.time() is an integer number of 10 ms steps (0.8 s = 80);       *)
(*   - a confidence is an integer number of hundredths.                    *)
(* Rounding error of the float operations is not modelled.                 *)
(***************************************************************************)
EXTENDS Integers, Sequences, FiniteSets, TLC

VARIABLES
    params,              \* the constructor arguments kept as fields (decision.py 34-39)
    privacy_on,          \* self.privacy_on
    risk_counter,        \* self.risk_counter
    safe_frame_counter,  \* self.safe_frame_counter
    safe_start_time,     \* self.safe_start_time: None or a clock reading
    decision_history,    \* self.decision_history: list of (time, decision)
    clock,               \* the wall clock time.time() reads
    driver,              \* the caller of the engine: which ticks it feeds
    log,                 \* observer: every decide/reset call made so far, in order
    twin,                \* observer: an engine constructed afresh at the last reset
    nms_in,              \* the detections handed to _nms
    nms_out,             \* the detections _nms returned
    iou_probe,           \* two boxes and what _compute_iou returned for them
    loadable,            \* the cascade files that load when the detector is built
    cascades,            \* self.cascades: the names of the loaded classifiers
    det_ready,           \* FaceDetector() returned a detector
    det_frame,           \* the pixel size of the frames handed to detect
    detection_count,     \* self.detection_count
    det_in,              \* what detectMultiScale gave each classifier, last detect
    det_out,             \* the FaceDetectionResult of the last detect
    pixel_box,           \* the last to_pixel_coords call and its result
    det_raised,          \* observer: the classifiers that raised in an earlier detect
    template_file,       \* the template file on disk: missing, unreadable, or an array
    ver_ready,           \* FaceVerifier() returned a verifier
    template_embedding,  \* self.template_embedding: None or a vector
    similarity_threshold,\* self.similarity_threshold
    ver_call,            \* the last call on the verifier: arguments and result
    model_files,         \* the DNN model files on disk: absent, broken or ok
    embedders,           \* two FaceEmbedder objects: use_dnn and net of each
    emb_log,             \* observer: every compute_embedding call, in order
    device,              \* the camera device: whether it opens, frames delivered
    cam,                 \* CameraStream: cap, running, latest_frame, frame_count, frame_lock
    capture,             \* the capture thread: its position and the frame it holds
    main,                \* the main thread: its position and what get_latest_frame returned
    cam_obs,             \* observer: is the stored frame unread, was one overwritten unread,
                         \* where the capture thread was when stop() returned
    pipe,                \* main(): its position and its loop variables (main.py 175-187)
    overlay,             \* the full-screen overlay: shown or hidden, the calls made on it
    enroll               \* enroll_user(): its position, its loop variables, the file saved

vars == <<params, privacy_on, risk_counter, safe_frame_counter, safe_start_time,
          decision_history, clock, driver, log, twin, nms_in, nms_out,
          iou_probe, loadable, cascades, det_ready, det_frame, detection_count,
          det_in, det_out, pixel_box, det_raised, template_file, ver_ready,
          template_embedding, similarity_threshold, ver_call, model_files,
          embedders, emb_log, device, cam, capture, main, cam_obs, pipe, overlay,
          enroll>>

engineVars == <<params, privacy_on, risk_counter, safe_frame_counter,
                safe_start_time, decision_history, clock, driver, log, twin>>

nmsVars == <<nms_in, nms_out, iou_probe>>

detVars == <<loadable, cascades, det_ready, det_frame, detection_count,
             det_in, det_out, pixel_box, det_raised>>

verVars == <<template_file, ver_ready, template_embedding, similarity_threshold,
             ver_call>>

embVars == <<model_files, embedders, emb_log>>

camVars == <<device, cam, capture, main, cam_obs>>

pipeVars == <<pipe, overlay>>

enrVars == <<enroll>>

outsideEngine == <<nmsVars, detVars, verVars, embVars, camVars,
    pipeVars, enrVars>>

outsideNms == <<engineVars, detVars, verVars, embVars, camVars,
    pipeVars, enrVars>>

outsideDet == <<engineVars, nmsVars, verVars, embVars, camVars,
    pipeVars, enrVars>>

outsideVer == <<engineVars, nmsVars, detVars, embVars, camVars,
    pipeVars, enrVars>>

outsideEmb == <<engineVars, nmsVars, detVars, verVars, camVars,
    pipeVars, enrVars>>

outsideCam == <<engineVars, nmsVars, detVars, verVars, embVars,
    pipeVars, enrVars>>

outsidePipeline == <<nmsVars, detVars, verVars, embVars, enrVars>>

outsideEnr == <<engineVars, nmsVars, detVars, verVars, embVars, camVars, pipeVars>>

----------------------------------------------------------------------------
(* Optional values: None is the empty tuple, a present value a 1-tuple.    *)

None == <<>>

Some(x) == <<x>>

IsNone(o) == o = <<>>

Get(o) == o[1]

Max(a, b) == IF a >= b THEN a ELSE b

Min(a, b) == IF a <= b THEN a ELSE b

----------------------------------------------------------------------------
(* Bounds of the model.                                                    *)

\* Steps per unit of a normalized coordinate.
Units == 20

\* decide/reset calls made by the free driver.
MaxTicks == 4

\* Faces in one probed detection result.
MaxFaces == 3

\* Raw candidates handed to one suppression.
MaxCands == 3

\* detect calls on one detector, and rectangles the classifiers report for
\* one frame.
MaxDetects == 2

MaxRaw == 2

\* Embeddings, and boxes, handed to one verify_batch.
MaxBatch == 2

\* compute_embedding calls on the two embedders together.
MaxEmbeds == 3

\* Frames the camera device delivers.
MaxFrames == 3

MaxLoops == 3

\* Passes of the enrollment loop: enough for 'e', fifteen captures and 'q'.
MaxEnrollFrames == 17

----------------------------------------------------------------------------
(* Geometry: utils.BoundingBox.                                            *)

Box(x0, y0, x1, y1) == [x_min |-> x0, y_min |-> y0, x_max |-> x1, y_max |-> y1]

BoxWidth(b) == b.x_max - b.x_min

BoxHeight(b) == b.y_max - b.y_min

\* In cells of 1/Units^2 of the frame.
BoxArea(b) == BoxWidth(b) * BoxHeight(b)

\* ratio (in cells) >= thr (a rational): the float comparison `ratio >= thr`.
RatioAtLeast(cells, thr) == cells * thr.den >= thr.num * Units * Units

----------------------------------------------------------------------------
(* PrivacyDecisionEngine: constants of the source.                         *)

\* decision.py 160-161: the history keeps the last 100 decisions.
HistoryLimit == 100

\* Constructor defaults (decision.py 16-21); debounce_off_seconds in 10 ms steps.
DefaultFaceCountThreshold == 2

DefaultDebounceOnFrames == 2

DefaultDebounceOffSeconds == 80

DefaultDebounceOffFrames == 30

DefaultAreaRatioThreshold == [num |-> 2, den |-> 100]

DefaultParams ==
    [face_count_threshold      |-> DefaultFaceCountThreshold,
     area_ratio_threshold      |-> DefaultAreaRatioThreshold,
     debounce_on_frames        |-> DefaultDebounceOnFrames,
     debounce_off_seconds      |-> DefaultDebounceOffSeconds,
     debounce_off_frames       |-> DefaultDebounceOffFrames,
     use_identity_verification |-> FALSE]

\* The debounce state right after construction (decision.py 41-45).
FreshEngine ==
    [privacy_on         |-> FALSE,
     risk_counter       |-> 0,
     safe_frame_counter |-> 0,
     safe_start_time    |-> None]

\* The engine's debounce fields as one record.
Self ==
    [privacy_on         |-> privacy_on,
     risk_counter       |-> risk_counter,
     safe_frame_counter |-> safe_frame_counter,
     safe_start_time    |-> safe_start_time]

----------------------------------------------------------------------------
(* decide: the risk computation (decision.py 71-112).                      *)

\* area_ratio = box.area() * frame_area / frame_area (84-86, 99-101).
AreaRatio(box, frame_area) == (BoxArea(box) * frame_area) \div frame_area

\* The body shared by both loops (82-91 and 98-105): count the boxes at or
\* above the threshold and track the largest counted ratio.
RECURSIVE ScanFaces(_, _, _, _)
ScanFaces(boxes, thr, frame_area, acc) ==
    IF boxes = <<>> THEN acc
    ELSE LET r == AreaRatio(Head(boxes), frame_area)
             nxt == IF RatioAtLeast(r, thr)
                    THEN [count |-> acc.count + 1, score |-> Max(acc.score, r)]
                    ELSE acc
         IN ScanFaces(Tail(boxes), thr, frame_area, nxt)

NoFaces == [count |-> 0, score |-> 0]

BoxesOf(ids) == [i \in 1..Len(ids) |-> ids[i].box]

IsOther(f) == f.label = "OTHER"

IsMe(f) == f.label = "ME"

\* A fault: the mode follows the identity list alone.
UseVerifiedModeListAlone(flag, identities) == ~IsNone(identities)

\* The condition of line 79.
UseVerifiedMode(flag, identities) == flag /\ ~IsNone(identities)

\* A fault: every identity is scanned, whatever its label.
VerifiedRiskAllLabels(identities, thr, frame_area) ==
    LET s == ScanFaces(BoxesOf(identities), thr, frame_area, NoFaces)
    IN [other_face_count |-> s.count,
        risk_score       |-> s.score,
        me_face_count    |-> Len(SelectSeq(identities, IsMe)),
        total_faces      |-> Len(identities)]

\* Lines 80-94.
VerifiedRisk(identities, thr, frame_area) ==
    LET other_faces == SelectSeq(identities, IsOther)
        s == ScanFaces(BoxesOf(other_faces), thr, frame_area, NoFaces)
    IN [other_face_count |-> s.count,
        risk_score       |-> s.score,
        me_face_count    |-> Len(SelectSeq(identities, IsMe)),
        total_faces      |-> Len(identities)]

\* A fault: no visible face is taken to be the user.
UnverifiedRiskCountsAll(boxes, thr, frame_area) ==
    LET s == ScanFaces(boxes, thr, frame_area, NoFaces)
    IN [other_face_count |-> s.count,
        risk_score       |-> s.score,
        me_face_count    |-> IF s.count > 0 THEN 1 ELSE 0,
        total_faces      |-> Len(boxes)]

\* Lines 96-109.
UnverifiedRisk(boxes, thr, frame_area) ==
    LET s == ScanFaces(boxes, thr, frame_area, NoFaces)
    IN [other_face_count |-> Max(0, s.count - 1),
        risk_score       |-> s.score,
        me_face_count    |-> IF s.count > 0 THEN 1 ELSE 0,
        total_faces      |-> Len(boxes)]

\* Lines 71-109.
ComputeRisk(p, inp) ==
    LET frame_area == inp.frame_width * inp.frame_height
    IN IF UseVerifiedMode(p.use_identity_verification, inp.identities)
       THEN VerifiedRisk(Get(inp.identities), p.area_ratio_threshold, frame_area)
       ELSE UnverifiedRisk(inp.boxes, p.area_ratio_threshold, frame_area)

\* A fault: one face beside the user is enough.
IsRiskyAnyOther(other_face_count, face_count_threshold) == other_face_count >= 1

\* Line 112.
IsRisky(other_face_count, face_count_threshold) ==
    other_face_count >= face_count_threshold

----------------------------------------------------------------------------
(* decide: the debounce (decision.py 115-149).                             *)
(* A reason string is a record: its kind and the two numbers it prints.    *)

Reason(k, x, y) == [kind |-> k, a |-> x, b |-> y]

\* "%.1f" of a time in 10 ms steps: tenths of a second, to the nearest.
\* (On an exact tie the binary value decides in Python; here ties go up.)
Tenths(t) == (t + 5) \div 10

\* "%.3f" of a ratio in cells: thousandths, to the nearest.
Thousandths(cells) == (2 * cells * 1000 + Units * Units) \div (2 * Units * Units)

\* A fault: the on-debounce needs one tick more.
OnConditionStrict(counter, debounce_on_frames) == counter > debounce_on_frames

\* A fault: any risky tick turns the blur on.
OnConditionAnyCount(counter, debounce_on_frames) == counter >= 1

\* Line 120.
OnCondition(counter, debounce_on_frames) == counter >= debounce_on_frames

\* A fault: either condition releases.
OffConditionEither(time_safe, counter, p) ==
    time_safe >= p.debounce_off_seconds \/ counter >= p.debounce_off_frames

\* Line 139.
OffCondition(time_safe, counter, p) ==
    time_safe >= p.debounce_off_seconds /\ counter >= p.debounce_off_frames

\* A fault: a risky tick that finds the blur on starts the count again.
RiskyBranchRestartsCount(e, p, r) ==
    LET rc == IF e.privacy_on THEN 1 ELSE e.risk_counter + 1
        on == OnCondition(rc, p.debounce_on_frames)
    IN [e |-> [privacy_on         |-> IF on THEN TRUE ELSE e.privacy_on,
               risk_counter       |-> rc,
               safe_frame_counter |-> 0,
               safe_start_time    |-> None],
        reason |-> IF ~on THEN Reason("", 0, 0)
                   ELSE IF p.use_identity_verification
                        THEN Reason("RiskOther", r.other_face_count,
                                    Thousandths(r.risk_score))
                        ELSE Reason("RiskFaces", r.total_faces, r.other_face_count)]

\* A fault: a risky tick leaves the run of safe ticks standing.
RiskyBranchKeepsSafeRun(e, p, r) ==
    LET rc == e.risk_counter + 1
        on == OnCondition(rc, p.debounce_on_frames)
    IN [e |-> [privacy_on         |-> IF on THEN TRUE ELSE e.privacy_on,
               risk_counter       |-> rc,
               safe_frame_counter |-> e.safe_frame_counter,
               safe_start_time    |-> e.safe_start_time],
        reason |-> IF ~on THEN Reason("", 0, 0)
                   ELSE IF p.use_identity_verification
                        THEN Reason("RiskOther", r.other_face_count,
                                    Thousandths(r.risk_score))
                        ELSE Reason("RiskFaces", r.total_faces, r.other_face_count)]

\* Lines 116-125.
RiskyBranch(e, p, r) ==
    LET rc == e.risk_counter + 1
        on == OnCondition(rc, p.debounce_on_frames)
    IN [e |-> [privacy_on         |-> IF on THEN TRUE ELSE e.privacy_on,
               risk_counter       |-> rc,
               safe_frame_counter |-> 0,
               safe_start_time    |-> None],
        reason |-> IF ~on THEN Reason("", 0, 0)
                   ELSE IF p.use_identity_verification
                        THEN Reason("RiskOther", r.other_face_count,
                                    Thousandths(r.risk_score))
                        ELSE Reason("RiskFaces", r.total_faces, r.other_face_count)]

\* A fault: every safe tick starts the safe period anew.
SafeBranchRestartsClock(e, p, r, t1, t2) ==
    LET sfc == e.safe_frame_counter + 1
        sst == Some(t1)
        time_safe == t2 - Get(sst)
        off == OffCondition(time_safe, sfc, p)
    IN [e |-> [privacy_on         |-> IF off THEN FALSE ELSE e.privacy_on,
               risk_counter       |-> 0,
               safe_frame_counter |-> IF off THEN 0 ELSE sfc,
               safe_start_time    |-> sst],
        reason |-> IF off
                   THEN IF p.use_identity_verification
                        THEN Reason("SafeMe", r.me_face_count, r.other_face_count)
                        ELSE Reason("SafeFaces", r.total_faces, 0)
                   ELSE Reason("Holding",
                               Tenths(Max(0, p.debounce_off_seconds - time_safe)),
                               Max(0, p.debounce_off_frames - sfc))]

\* A fault: a safe tick leaves the count of risky ticks standing.
SafeBranchKeepsRiskCounter(e, p, r, t1, t2) ==
    LET sfc == e.safe_frame_counter + 1
        sst == IF IsNone(e.safe_start_time) THEN Some(t1) ELSE e.safe_start_time
        time_safe == t2 - Get(sst)
        off == OffCondition(time_safe, sfc, p)
    IN [e |-> [privacy_on         |-> IF off THEN FALSE ELSE e.privacy_on,
               risk_counter       |-> e.risk_counter,
               safe_frame_counter |-> IF off THEN 0 ELSE sfc,
               safe_start_time    |-> sst],
        reason |-> IF off
                   THEN IF p.use_identity_verification
                        THEN Reason("SafeMe", r.me_face_count, r.other_face_count)
                        ELSE Reason("SafeFaces", r.total_faces, 0)
                   ELSE Reason("Holding",
                               Tenths(Max(0, p.debounce_off_seconds - time_safe)),
                               Max(0, p.debounce_off_frames - sfc))]

\* A fault: a safe tick does not count itself.
SafeBranchNoFrameCount(e, p, r, t1, t2) ==
    LET sfc == e.safe_frame_counter
        sst == IF IsNone(e.safe_start_time) THEN Some(t1) ELSE e.safe_start_time
        time_safe == t2 - Get(sst)
        off == OffCondition(time_safe, sfc, p)
    IN [e |-> [privacy_on         |-> IF off THEN FALSE ELSE e.privacy_on,
               risk_counter       |-> 0,
               safe_frame_counter |-> IF off THEN 0 ELSE sfc,
               safe_start_time    |-> sst],
        reason |-> IF off
                   THEN IF p.use_identity_verification
                        THEN Reason("SafeMe", r.me_face_count, r.other_face_count)
                        ELSE Reason("SafeFaces", r.total_faces, 0)
                   ELSE Reason("Holding",
                               Tenths(Max(0, p.debounce_off_seconds - time_safe)),
                               Max(0, p.debounce_off_frames - sfc))]

\* Lines 128-149.  t1 is the clock at line 132, t2 the clock at line 134.
SafeBranch(e, p, r, t1, t2) ==
    LET sfc == e.safe_frame_counter + 1
        sst == IF IsNone(e.safe_start_time) THEN Some(t1) ELSE e.safe_start_time
        time_safe == t2 - Get(sst)
        off == OffCondition(time_safe, sfc, p)
    IN [e |-> [privacy_on         |-> IF off THEN FALSE ELSE e.privacy_on,
               risk_counter       |-> 0,
               safe_frame_counter |-> IF off THEN 0 ELSE sfc,
               safe_start_time    |-> sst],
        reason |-> IF off
                   THEN IF p.use_identity_verification
                        THEN Reason("SafeMe", r.me_face_count, r.other_face_count)
                        ELSE Reason("SafeFaces", r.total_faces, 0)
                   ELSE Reason("Holding",
                               Tenths(Max(0, p.debounce_off_seconds - time_safe)),
                               Max(0, p.debounce_off_frames - sfc))]

\* Lines 71-156: the new debounce state and the decision returned.
DecideOp(e, p, inp, t1, t2) ==
    LET r == ComputeRisk(p, inp)
        b == IF IsRisky(r.other_face_count, p.face_count_threshold)
             THEN RiskyBranch(e, p, r)
             ELSE SafeBranch(e, p, r, t1, t2)
    IN [e |-> b.e,
        decision |-> [privacy_on       |-> b.e.privacy_on,
                      reason           |-> b.reason,
                      risk_score       |-> r.risk_score,
                      other_face_count |-> r.other_face_count]]

\* A fault: the oldest 100 entries are kept.
TrimHistoryOldest(h) ==
    IF Len(h) > HistoryLimit
    THEN SubSeq(h, 1, HistoryLimit)
    ELSE h

\* Lines 158-161.
TrimHistory(h) ==
    IF Len(h) > HistoryLimit
    THEN SubSeq(h, Len(h) - HistoryLimit + 1, Len(h))
    ELSE h

----------------------------------------------------------------------------
(* FaceDetector: the greedy suppression (detector.py 140-198).             *)
(* A detection is [box, confidence]; an IoU is a rational [num, den].      *)

\* detector.py 122: detect suppresses with iou_threshold=0.15.
IouThreshold == [num |-> 15, den |-> 100]

Ratio(n, d) == [num |-> n, den |-> d]

\* r > thr for rationals with positive denominators.
RatioGreater(r, thr) == r.num * thr.den > thr.num * r.den

Detection(b, c) == [box |-> b, confidence |-> c]

\* A fault: the intersection is not taken out of the union.
ComputeIouSumAsUnion(box1, box2) ==
    LET inter_x_min == Max(box1.x_min, box2.x_min)
        inter_y_min == Max(box1.y_min, box2.y_min)
        inter_x_max == Min(box1.x_max, box2.x_max)
        inter_y_max == Min(box1.y_max, box2.y_max)
    IN IF inter_x_max <= inter_x_min \/ inter_y_max <= inter_y_min
       THEN Ratio(0, 1)
       ELSE LET inter_area == (inter_x_max - inter_x_min) * (inter_y_max - inter_y_min)
                box1_area == (box1.x_max - box1.x_min) * (box1.y_max - box1.y_min)
                box2_area == (box2.x_max - box2.x_min) * (box2.y_max - box2.y_min)
                union_area == box1_area + box2_area
            IN IF union_area > 0 THEN Ratio(inter_area, union_area) ELSE Ratio(0, 1)

\* _compute_iou (173-198).
ComputeIou(box1, box2) ==
    LET inter_x_min == Max(box1.x_min, box2.x_min)
        inter_y_min == Max(box1.y_min, box2.y_min)
        inter_x_max == Min(box1.x_max, box2.x_max)
        inter_y_max == Min(box1.y_max, box2.y_max)
    IN IF inter_x_max <= inter_x_min \/ inter_y_max <= inter_y_min
       THEN Ratio(0, 1)
       ELSE LET inter_area == (inter_x_max - inter_x_min) * (inter_y_max - inter_y_min)
                box1_area == (box1.x_max - box1.x_min) * (box1.y_max - box1.y_min)
                box2_area == (box2.x_max - box2.x_min) * (box2.y_max - box2.y_min)
                union_area == box1_area + box2_area - inter_area
            IN IF union_area > 0 THEN Ratio(inter_area, union_area) ELSE Ratio(0, 1)

\* A fault: the sort is ascending, the least confident candidate first.
RECURSIVE InsertAscending(_, _)
InsertAscending(sorted, d) ==
    IF sorted = <<>> THEN <<d>>
    ELSE IF Head(sorted).confidence <= d.confidence
         THEN <<Head(sorted)>> \o InsertAscending(Tail(sorted), d)
         ELSE <<d>> \o sorted

\* sorted(detections, key=confidence, reverse=True) (156): stable, so equal
\* confidences keep their input order.
RECURSIVE InsertByConfidence(_, _)
InsertByConfidence(sorted, d) ==
    IF sorted = <<>> THEN <<d>>
    ELSE IF Head(sorted).confidence >= d.confidence
         THEN <<Head(sorted)>> \o InsertByConfidence(Tail(sorted), d)
         ELSE <<d>> \o sorted

RECURSIVE SortByConfidence(_, _)
SortByConfidence(dets, acc) ==
    IF dets = <<>> THEN acc
    ELSE SortByConfidence(Tail(dets), InsertByConfidence(acc, Head(dets)))

\* A fault: the candidate is compared with the first kept detection only.
ShouldKeepFirstOnly(current, kept, thr) ==
    kept = <<>> \/ ~RatioGreater(ComputeIou(current.box, kept[1].box), thr)

\* A fault: a candidate is dropped at the threshold itself.
ShouldKeepBelowOnly(current, kept, thr) ==
    \A i \in 1..Len(kept) :
        /\ ~RatioGreater(ComputeIou(current.box, kept[i].box), thr)
        /\ ComputeIou(current.box, kept[i].box).num * thr.den
           # thr.num * ComputeIou(current.box, kept[i].box).den

\* The inner loop (161-166).
ShouldKeep(current, kept, thr) ==
    \A i \in 1..Len(kept) : ~RatioGreater(ComputeIou(current.box, kept[i].box), thr)

\* The outer loop (158-169).
RECURSIVE Greedy(_, _, _)
Greedy(sorted_dets, kept, thr) ==
    IF sorted_dets = <<>> THEN kept
    ELSE LET current == Head(sorted_dets)
         IN Greedy(Tail(sorted_dets),
                   IF ShouldKeep(current, kept, thr) THEN Append(kept, current) ELSE kept,
                   thr)

\* _nms (140-171).
Nms(detections, iou_threshold) ==
    IF detections = <<>> THEN <<>>
    ELSE Greedy(SortByConfidence(detections, <<>>), <<>>, iou_threshold)

----------------------------------------------------------------------------
(* FaceDetector (detector.py).  A frame is its pixel size [w, h].  A       *)
(* rectangle a classifier reports is [x, y, fw, fh] in pixels.  The         *)
(* normalized box of a detection keeps the numerators: x_min and x_max are  *)
(* in steps of 1/w, y_min and y_max in steps of 1/h of the frame it was     *)
(* found in.  A confidence is in steps of 1/(100*w*h), which makes          *)
(* base + min(1, area_ratio*100)*0.2 an integer.                            *)

CascadeNames == <<"frontal", "profile">>

\* __init__ (32-48): a classifier is appended when its file loaded.
LoadCascades(files) == SelectSeq(CascadeNames, LAMBDA c : c \in files)

\* A fault: the constructor gives up when no classifier loaded.
ConstructorRaisesOnEmpty(loaded) == loaded = <<>>

\* __init__ (26-50): no statement raises for any outcome of the two loads;
\* an empty cascade list is only printed (50).
ConstructorRaises(loaded) == FALSE

Rect(x, y, fw, fh) == [x |-> x, y |-> y, fw |-> fw, fh |-> fh]

\* detectMultiScale returned these faces, or raised.
Returned(faces) == [raised |-> FALSE, faces |-> faces]

Raised == [raised |-> TRUE, faces |-> <<>>]

\* A fault: a face of exactly 50% of the frame is dropped too.
PassesSizeFilterBelowHalf(r, frame) ==
    LET face_area  == r.fw * r.fh
        frame_area == frame.w * frame.h
    IN /\ ~(1000 * face_area < 2 * frame_area)
       /\ ~(2 * face_area >= frame_area)

\* The size filter (89-97): kept from 0.2% to 50% of the frame, both ends
\* included.
PassesSizeFilter(r, frame) ==
    LET face_area  == r.fw * r.fh
        frame_area == frame.w * frame.h
    IN /\ ~(1000 * face_area < 2 * frame_area)
       /\ ~(2 * face_area > frame_area)

\* A fault: the coordinates are normalized without clamping.
NormalizeBoxNoClamp(r, frame) == Box(r.x, r.y, r.x + r.fw, r.y + r.fh)

\* Normalization and clamping (100-103).
NormalizeBox(r, frame) ==
    Box(Max(0, r.x), Max(0, r.y), Min(frame.w, r.x + r.fw), Min(frame.h, r.y + r.fh))

\* base_confidence (106), in hundredths.
BaseConfidence(cascade_name) == IF cascade_name = "frontal" THEN 70 ELSE 60

\* confidence (106-108), times 100 * w * h.
EstimateConfidence(cascade_name, r, frame) ==
    LET face_area  == r.fw * r.fh
        frame_area == frame.w * frame.h
    IN BaseConfidence(cascade_name) * frame_area
       + Min(frame_area, 100 * face_area) * 20

\* The dict appended for one face (110-115); area in steps of 1/(w*h).
RawDetection(cascade_name, r, frame) ==
    [box        |-> NormalizeBox(r, frame),
     confidence |-> EstimateConfidence(cascade_name, r, frame),
     area       |-> r.fw * r.fh,
     cascade    |-> cascade_name]

\* The loop over the faces of one classifier (87-115).
RECURSIVE FacesToDetections(_, _, _)
FacesToDetections(cascade_name, faces, frame) ==
    IF faces = <<>> THEN <<>>
    ELSE LET rest == FacesToDetections(cascade_name, Tail(faces), frame)
         IN IF PassesSizeFilter(Head(faces), frame)
            THEN <<RawDetection(cascade_name, Head(faces), frame)>> \o rest
            ELSE rest

\* One classifier inside its try (78-118): a raise is printed and adds
\* nothing.
TryCascade(cascade_name, outcome, frame) ==
    IF outcome.raised THEN <<>>
    ELSE FacesToDetections(cascade_name, outcome.faces, frame)

\* A fault: one try around the whole loop, so a raise ends it.
RECURSIVE AllDetectionsOuterTry(_, _, _)
AllDetectionsOuterTry(loaded, raw, frame) ==
    IF loaded = <<>> THEN <<>>
    ELSE IF raw[Head(loaded)].raised THEN <<>>
    ELSE TryCascade(Head(loaded), raw[Head(loaded)], frame)
         \o AllDetectionsOuterTry(Tail(loaded), raw, frame)

\* The loop over self.cascades (77-118).
RECURSIVE AllDetections(_, _, _)
AllDetections(loaded, raw, frame) ==
    IF loaded = <<>> THEN <<>>
    ELSE TryCascade(Head(loaded), raw[Head(loaded)], frame)
         \o AllDetections(Tail(loaded), raw, frame)

\* A fault: the confidences of all candidates are returned, the boxes of
\* the retained ones.
DetectOpAllConfidences(loaded, raw, frame) ==
    LET all_detections == AllDetections(loaded, raw, frame)
        filtered_detections == Nms(all_detections, IouThreshold)
    IN [boxes       |-> [i \in 1..Len(filtered_detections) |-> filtered_detections[i].box],
        confidences |-> [i \in 1..Len(all_detections) |-> all_detections[i].confidence]]

\* detect (63-138): suppression, then the boxes and confidences in the
\* order _nms returned them.
DetectOp(loaded, raw, frame) ==
    LET filtered_detections == Nms(AllDetections(loaded, raw, frame), IouThreshold)
    IN [boxes       |-> [i \in 1..Len(filtered_detections) |-> filtered_detections[i].box],
        confidences |-> [i \in 1..Len(filtered_detections) |-> filtered_detections[i].confidence]]

\* BoundingBox.to_pixel_coords (utils.py 17-24) on a box normalized in a
\* frame `frame`, for a frame of frame_width x frame_height pixels: int()
\* of a non-negative product is its floor.
ToPixelCoords(box, frame, frame_width, frame_height) ==
    Box((box.x_min * frame_width) \div frame.w,
        (box.y_min * frame_height) \div frame.h,
        (box.x_max * frame_width) \div frame.w,
        (box.y_max * frame_height) \div frame.h)

----------------------------------------------------------------------------
(* FaceEmbedder.similarity (embedder.py) and FaceVerifier (verify.py).     *)
(* An embedding is a tuple of integers whose length is a whole number, a   *)
(* similarity a rational [num, den].  The 1e-8 added to a norm is below    *)
(* the resolution: a non-zero vector is normalized to length 1, the zero   *)
(* vector to itself.                                                        *)

RECURSIVE Dot(_, _)
Dot(u, v) ==
    IF u = <<>> \/ v = <<>> THEN 0
    ELSE Head(u) * Head(v) + Dot(Tail(u), Tail(v))

\* np.linalg.norm, for a vector whose length is a whole number.
Norm(v) == CHOOSE n \in 0..Dot(v, v) : n * n = Dot(v, v)

RatioGreaterEq(r, thr) == r.num * thr.den >= thr.num * r.den

RatioLess(r, s) == r.num * s.den < s.num * r.den

RatioMin(r, s) == IF RatioLess(s, r) THEN s ELSE r

RatioMax(r, s) == IF RatioLess(r, s) THEN s ELSE r

\* float(np.dot(e1, e2)) of the two normalized vectors (184-188).
Cosine(embedding1, embedding2) ==
    LET n1 == Norm(embedding1)
        n2 == Norm(embedding2)
    IN IF n1 = 0 \/ n2 = 0 THEN Ratio(0, 1)
       ELSE Ratio(Dot(embedding1, embedding2), n1 * n2)

\* A fault: the cosine is returned as it is, neither mapped nor clamped.
SimilarityRawCosine(embedding1, embedding2) ==
    IF IsNone(embedding1) \/ IsNone(embedding2) THEN Ratio(0, 1)
    ELSE IF Len(Get(embedding1)) = 0 \/ Len(Get(embedding2)) = 0 THEN Ratio(0, 1)
    ELSE Cosine(Get(embedding1), Get(embedding2))

\* similarity (embedder.py 167-191); an argument is None or Some(vector).
Similarity(embedding1, embedding2) ==
    IF IsNone(embedding1) \/ IsNone(embedding2) THEN Ratio(0, 1)
    ELSE IF Len(Get(embedding1)) = 0 \/ Len(Get(embedding2)) = 0 THEN Ratio(0, 1)
    ELSE LET similarity_score == Cosine(Get(embedding1), Get(embedding2))
             mapped == Ratio(similarity_score.num + similarity_score.den,
                             2 * similarity_score.den)
         IN RatioMax(Ratio(0, 1), RatioMin(Ratio(1, 1), mapped))

\* A fault: a template file that cannot be read makes the constructor raise.
LoadTemplateRaisesUnreadable(file) ==
    IF file.state = "missing" THEN [raised |-> FALSE, template |-> None]
    ELSE IF file.state = "unreadable" THEN [raised |-> TRUE, template |-> None]
    ELSE [raised |-> FALSE, template |-> Some(file.content)]

\* _load_template (verify.py 43-55) on the file's state: a missing file is
\* reported, a raise of np.load is caught, an array is stored.
LoadTemplate(file) ==
    IF file.state = "missing" THEN [raised |-> FALSE, template |-> None]
    ELSE IF file.state = "unreadable" THEN [raised |-> FALSE, template |-> None]
    ELSE [raised |-> FALSE, template |-> Some(file.content)]

\* is_enabled (57-59).
IsEnabled(template) == ~IsNone(template)

Identified(l, s) == [label |-> l, similarity |-> s]

\* A fault: the bound is exclusive.
VerifyExclusive(template, threshold, embedding) ==
    IF ~IsEnabled(template) THEN Identified("OTHER", Ratio(0, 1))
    ELSE LET similarity == Similarity(embedding, template)
         IN IF RatioGreater(similarity, threshold)
            THEN Identified("ME", similarity)
            ELSE Identified("OTHER", similarity)

\* verify (61-79).
Verify(template, threshold, embedding) ==
    IF ~IsEnabled(template) THEN Identified("OTHER", Ratio(0, 1))
    ELSE LET similarity == Similarity(embedding, template)
         IN IF RatioGreaterEq(similarity, threshold)
            THEN Identified("ME", similarity)
            ELSE Identified("OTHER", similarity)

FaceIdentity(l, s, b, e) == [label |-> l, similarity |-> s, box |-> b, embedding |-> e]

\* A fault: every entry is given the result of the first embedding.
RECURSIVE VerifyBatchFirstForAll(_, _, _, _)
VerifyBatchFirstForAll(template, threshold, embeddings, boxes) ==
    IF embeddings = <<>> \/ boxes = <<>> THEN <<>>
    ELSE LET r == Verify(template, threshold, Some(Head(embeddings)))
             rest == VerifyBatchFirstForAll(template, threshold, Tail(embeddings), Tail(boxes))
         IN <<FaceIdentity(r.label, r.similarity, Head(boxes), Head(embeddings))>>
            \o [i \in 1..Len(rest) |->
                  FaceIdentity(r.label, r.similarity, rest[i].box, rest[i].embedding)]

\* verify_batch (81-108): zip stops at the shorter of the two lists.
RECURSIVE VerifyBatch(_, _, _, _)
VerifyBatch(template, threshold, embeddings, boxes) ==
    IF embeddings = <<>> \/ boxes = <<>> THEN <<>>
    ELSE LET r == Verify(template, threshold, Some(Head(embeddings)))
         IN <<FaceIdentity(r.label, r.similarity, Head(boxes), Head(embeddings))>>
            \o VerifyBatch(template, threshold, Tail(embeddings), Tail(boxes))

----------------------------------------------------------------------------
(* FaceEmbedder.compute_embedding (embedder.py).  A face crop is "blank"   *)
(* (None or of size 0) or names an image; an embedder is [use_dnn, net].   *)

\* __init__ and _try_load_dnn_model (18-46): the net is used when both
\* model files exist and readNetFromTorch returns.
NewEmbedder(files) == [use_dnn |-> files = "ok", net |-> files = "ok"]

\* np.zeros(self.embedding_size) (59).
ZeroEmbedding == <<0, 0>>

\* What net.forward gives for a crop, normalized (72-89): a function of the
\* crop alone.
DnnEmbedding(face_crop) == IF face_crop = "faceA" THEN <<3, 4>> ELSE <<4, 3>>

\* What np.random.randn may give (150).
RandomVectors == { <<3, 4>>, <<4, 3>>, <<6, 8>> }

\* _compute_feature_embedding (95-150): inside the try, the HOGDescriptor
\* is built with the name _64 (109), which is bound nowhere, so every call
\* raises NameError there, and the except returns a random vector (148-150).
FeatureEmbeddings(face_crop) == RandomVectors

\* A fault: a call that ends in the handcrafted features selects the
\* network again when one is loaded.
ComputeEmbeddingRearmsDnn(e, face_crop) ==
    IF face_crop = "blank"
    THEN { [e |-> e, strategy |-> "zeros", out |-> ZeroEmbedding] }
    ELSE IF e.use_dnn /\ e.net
    THEN { [e |-> e, strategy |-> "dnn", out |-> DnnEmbedding(face_crop)] }
         \cup { [e |-> [e EXCEPT !.use_dnn = FALSE], strategy |-> "feature", out |-> v] :
                   v \in FeatureEmbeddings(face_crop) }
    ELSE { [e |-> [e EXCEPT !.use_dnn = e.net], strategy |-> "feature", out |-> v] :
             v \in FeatureEmbeddings(face_crop) }

\* compute_embedding (48-64) with _compute_dnn_embedding (66-93): the
\* embedder afterwards and the vector returned, for every outcome of the
\* forward pass and of the random draw.
ComputeEmbedding(e, face_crop) ==
    IF face_crop = "blank"
    THEN { [e |-> e, strategy |-> "zeros", out |-> ZeroEmbedding] }
    ELSE IF e.use_dnn /\ e.net
    THEN { [e |-> e, strategy |-> "dnn", out |-> DnnEmbedding(face_crop)] }
         \cup { [e |-> [e EXCEPT !.use_dnn = FALSE], strategy |-> "feature", out |-> v] :
                   v \in FeatureEmbeddings(face_crop) }
    ELSE { [e |-> e, strategy |-> "feature", out |-> v] :
             v \in FeatureEmbeddings(face_crop) }

----------------------------------------------------------------------------
(* The callers of the engine.  A driver fixes which ticks are fed:         *)
(*   free      any interleaving of safe ticks, risky ticks and reset();    *)
(*   scenario  the default engine, `lead` risky ticks and then safe ticks  *)
(*             spaced `dt` apart, long enough to fill the history;         *)
(*   probe     one tick with an arbitrary small detection result.          *)

\* The pixel sizes of the frames the camera delivers (main.py 197).
CameraFrame == [w |-> 640, h |-> 480]

FrameSizes == { CameraFrame, [w |-> 320, h |-> 240] }

\* The arguments of one decide call (decision.py 52-58).
TickOn(frame, boxes, identities) ==
    [boxes |-> boxes, identities |-> identities,
     frame_width |-> frame.w, frame_height |-> frame.h]

Tick(boxes, identities) == TickOn(CameraFrame, boxes, identities)

\* Three faces well above the default area threshold, and labels for them.
BigA == Box(0, 0, 6, 6)

BigB == Box(7, 0, 13, 6)

BigC == Box(14, 0, 20, 6)

Face(l, b) == [label |-> l, box |-> b]

InEmpty == Tick(<<>>, None)

InAlone == Tick(<<BigA>>, None)

InCrowd == Tick(<<BigA, BigB, BigC>>, None)

InPair == Tick(<<BigA, BigB>>, None)

InAloneId == Tick(<<BigA>>, Some(<<Face("ME", BigA)>>))

InCrowdId ==
    Tick(<<BigA, BigB, BigC>>,
         Some(<<Face("ME", BigA), Face("OTHER", BigB), Face("OTHER", BigC)>>))

Driver(m, n, l, d, s) == [mode |-> m, name |-> n, lead |-> l, dt |-> d, safe |-> s]

FreeDriver == Driver("free", "free", 0, 0, InEmpty)

ProbeDriver == Driver("probe", "probe", 0, 0, InEmpty)

\* burst: safe ticks 10 ms apart; slow: 1 s apart; steady: 30 ms apart;
\* empty: no face at all from the first tick on; pair: two faces from the
\* first tick on.
Scenarios ==
    { Driver("scenario", "burst",  DefaultDebounceOnFrames, 1,   InAlone),
      Driver("scenario", "pair",   0,                       3,   InPair),
      Driver("scenario", "slow",   DefaultDebounceOnFrames, 100, InAlone),
      Driver("scenario", "steady", DefaultDebounceOnFrames, 3,   InAlone),
      Driver("scenario", "empty",  0,                       3,   InEmpty) }

Config(fct, on, offs, offf, flag) ==
    [face_count_threshold      |-> fct,
     area_ratio_threshold      |-> DefaultAreaRatioThreshold,
     debounce_on_frames        |-> on,
     debounce_off_seconds      |-> offs,
     debounce_off_frames       |-> offf,
     use_identity_verification |-> flag]

\* Small debounce windows, so that a few ticks cross them.
FreeConfigs ==
    { Config(2, 2, 2, 2, FALSE),
      Config(2, 1, 2, 3, TRUE),
      Config(2, 1, 0, 1, FALSE) }

ProbeConfigs ==
    { Config(fct, 1, 0, 1, flag) : fct \in {1, 2}, flag \in BOOLEAN }

\* A box below the default area threshold (6 of 400 cells), one exactly at it
\* (8 cells = 0.02) and one above it.
ProbeBoxes == { Box(0, 0, 2, 3), Box(0, 0, 2, 4), BigA }

Labels == { "ME", "OTHER" }

SeqsUpTo(S, n) == UNION { [1..k -> S] : k \in 0..n }

\* The identities verify_batch builds for boxes: box i with label i.
Labelled(boxes, labels) == [i \in 1..Len(boxes) |-> Face(labels[i], boxes[i])]

ProbeInputs ==
    UNION { { TickOn(f, bs, None) : f \in FrameSizes } \cup
            { TickOn(f, bs, Some(Labelled(bs, ls))) :
                  f \in FrameSizes, ls \in [1..Len(bs) -> Labels] }
          : bs \in SeqsUpTo(ProbeBoxes, MaxFaces) }

CallLimit(d) ==
    CASE d.mode = "free"     -> MaxTicks
      [] d.mode = "scenario" -> HistoryLimit + 3
      [] OTHER               -> 1

InputsFor(d, p, n) ==
    CASE d.mode = "free"     -> IF p.use_identity_verification
                                THEN {InAloneId, InCrowdId}
                                ELSE {InEmpty, InCrowd}
      [] d.mode = "scenario" -> IF n < d.lead THEN {InCrowd} ELSE {d.safe}
      [] OTHER               -> ProbeInputs

\* Time between two calls, and time passing inside one call (between the
\* clock reads of lines 132 and 134), in 10 ms steps.
GapsFor(d) == IF d.mode = "free" THEN {1, 2} ELSE IF d.mode = "scenario" THEN {d.dt} ELSE {1}

LagsFor(d) == IF d.mode = "free" THEN {0, 1} ELSE {0}

----------------------------------------------------------------------------
(* The state machine.                                                      *)

LogEntry(k, inp, t1, t2, before, e, dec) ==
    [kind |-> k, inp |-> inp, t1 |-> t1, t2 |-> t2, before |-> before,
     after |-> e, decision |-> dec]

NoDecision ==
    [privacy_on |-> FALSE, reason |-> Reason("", 0, 0), risk_score |-> 0,
     other_face_count |-> 0]

InitEngine ==
    /\ \/ driver \in Scenarios /\ params = DefaultParams
       \/ driver = FreeDriver /\ params \in FreeConfigs
       \/ driver = ProbeDriver /\ params \in ProbeConfigs
    /\ privacy_on = FreshEngine.privacy_on
    /\ risk_counter = FreshEngine.risk_counter
    /\ safe_frame_counter = FreshEngine.safe_frame_counter
    /\ safe_start_time = FreshEngine.safe_start_time
    /\ decision_history = <<>>
    /\ clock = 0
    /\ log = <<>>
    /\ twin = [e |-> FreshEngine, decision |-> NoDecision]

InitNms ==
    /\ nms_in = None
    /\ nms_out = None
    /\ iou_probe = None

\* One call of decide (decision.py 52-163), made dt after the previous call.
DecideCall(inp, dt, lag) ==
    LET t1 == clock + dt
        t2 == t1 + lag
        d  == DecideOp(Self, params, inp, t1, t2)
        tw == DecideOp(twin.e, params, inp, t1, t2)
    IN /\ privacy_on' = d.e.privacy_on
       /\ risk_counter' = d.e.risk_counter
       /\ safe_frame_counter' = d.e.safe_frame_counter
       /\ safe_start_time' = d.e.safe_start_time
       /\ decision_history' = TrimHistory(Append(decision_history, <<t2, d.decision>>))
       /\ clock' = t2
       /\ log' = Append(log, LogEntry("decide", inp, t1, t2, privacy_on, d.e, d.decision))
       /\ twin' = [e |-> tw.e, decision |-> tw.decision]
       /\ UNCHANGED <<params, driver, outsideEngine>>

Decide ==
    /\ Len(log) < CallLimit(driver)
    /\ \E inp \in InputsFor(driver, params, Len(log)) :
       \E dt \in GapsFor(driver) :
       \E lag \in LagsFor(driver) :
          DecideCall(inp, dt, lag)

\* A fault: reset() leaves risk_counter as it is.
ResetKeepsRiskCounter ==
    /\ driver.mode = "free"
    /\ Len(log) < CallLimit(driver)
    /\ privacy_on' = FALSE
    /\ risk_counter' = risk_counter
    /\ safe_frame_counter' = 0
    /\ safe_start_time' = None
    /\ log' = Append(log, LogEntry("reset", InEmpty, clock, clock, privacy_on,
                                   FreshEngine, NoDecision))
    /\ twin' = [e |-> FreshEngine, decision |-> NoDecision]
    /\ UNCHANGED <<params, decision_history, clock, driver, outsideEngine>>

\* A fault: reset() empties the decision history as well.
ResetClearsHistory ==
    /\ driver.mode = "free"
    /\ Len(log) < CallLimit(driver)
    /\ privacy_on' = FALSE
    /\ risk_counter' = 0
    /\ safe_frame_counter' = 0
    /\ safe_start_time' = None
    /\ decision_history' = <<>>
    /\ log' = Append(log, LogEntry("reset", InEmpty, clock, clock, privacy_on,
                                   FreshEngine, NoDecision))
    /\ twin' = [e |-> FreshEngine, decision |-> NoDecision]
    /\ UNCHANGED <<params, clock, driver, outsideEngine>>

\* reset() (decision.py 165-170), on the user's 'r' key (main.py 291-292).
Reset ==
    /\ driver.mode = "free"
    /\ Len(log) < CallLimit(driver)
    /\ privacy_on' = FALSE
    /\ risk_counter' = 0
    /\ safe_frame_counter' = 0
    /\ safe_start_time' = None
    /\ log' = Append(log, LogEntry("reset", InEmpty, clock, clock, privacy_on,
                                   FreshEngine, NoDecision))
    /\ twin' = [e |-> FreshEngine, decision |-> NoDecision]
    /\ UNCHANGED <<params, decision_history, clock, driver, outsideEngine>>

\* The frame handed to detect: small, of 1000 pixels, so that a face of
\* exactly 0.2% and one of exactly 50% of the frame exist.
DetectFrame == [w |-> 50, h |-> 20]

DetectFrames == { DetectFrame }

\* FaceDetector() (detector.py 26-50) for the cascade files that load.
BuildDetector(files) ==
    /\ loadable = files
    /\ cascades = LoadCascades(files)
    /\ det_ready = ~ConstructorRaises(LoadCascades(files))
    /\ detection_count = 0
    /\ det_in = None
    /\ det_out = None
    /\ pixel_box = None
    /\ det_raised = {}

InitDet ==
    /\ det_frame \in DetectFrames
    /\ \E files \in SUBSET {"frontal", "profile"} : BuildDetector(files)

IdleDet ==
    /\ det_frame = DetectFrame
    /\ BuildDetector({"frontal", "profile"})

\* similarity_threshold's default (verify.py 25).
DefaultSimilarityThreshold == [num |-> 60, den |-> 100]

TemplateFile(s, c) == [state |-> s, content |-> c]

\* FaceVerifier(template_path, similarity_threshold) (verify.py 33-41) for
\* the state of the template file.
BuildVerifier(file, threshold) ==
    /\ template_file = file
    /\ ver_ready = ~LoadTemplate(file).raised
    /\ template_embedding = LoadTemplate(file).template
    /\ similarity_threshold = threshold
    /\ ver_call = None

IdleVer == BuildVerifier(TemplateFile("missing", <<>>), DefaultSimilarityThreshold)

\* Two FaceEmbedder() built in the same directory (embedder.py 18-24).
BuildEmbedders(files) ==
    /\ model_files = files
    /\ embedders = [id \in {1, 2} |-> NewEmbedder(files)]
    /\ emb_log = <<>>

InitEmb == \E files \in {"absent", "broken", "ok"} : BuildEmbedders(files)

IdleEmb == BuildEmbedders("absent")

\* CameraStream() (camera.py 22-33), no thread yet, for a device that
\* opens or does not.
BuildCamera(openable) ==
    /\ device = [openable |-> openable, delivered |-> 0]
    /\ cam = [cap |-> "none", running |-> FALSE, latest_frame |-> None,
              frame_count |-> 0, frame_lock |-> "free"]
    /\ capture = [pc |-> "unborn", frame |-> None]
    /\ main = [pc |-> "new", got |-> None]
    /\ cam_obs = [unread |-> FALSE, overwritten |-> FALSE, at_return |-> None,
                  stores |-> 0]

InitCam == \E openable \in BOOLEAN : BuildCamera(openable)

IdleCam == BuildCamera(TRUE)

\* detection.detection_interval_frames as configured: every frame, or the
\* default of every third (main.py 173).
DetectIntervals == {1, 3}

\* main() before camera.start(), with its loop variables as lines 175-187
\* set them; the overlay starts hidden (fullscreen_overlay.py 44).
\* tick_frames records the frame counter of each tick, and at_pause what
\* the pass that paused the driver left behind.
BuildPipeline(interval) ==
    /\ pipe = [pc |-> "start", detect_interval |-> interval, paused |-> FALSE,
               frame_counter |-> 0, detection_count |-> 0,
               last_privacy_state |-> FALSE, tick_frames |-> <<>>,
               at_pause |-> None]
    /\ overlay = [visible |-> FALSE, calls |-> 0, ticks |-> <<>>]

IdlePipe == BuildPipeline(3)

\* enroll_user() entering its loop (enroll.py 48-53); no template on disk.
BuildEnroll ==
    enroll = [pc |-> "loop", enrolling |-> FALSE, captured_crops |-> 0,
              captured_embeddings |-> 0, frame_counter |-> 0, face |-> None,
              template |-> None]

IdleEnr == BuildEnroll

Init == InitEngine /\ InitNms /\ IdleDet /\ IdleVer /\ IdleEmb /\ IdleCam
    /\ IdlePipe /\ IdleEnr

Next == Decide \/ Reset

Spec == Init /\ [][Next]_vars

\* The default engine under the scenarios alone, the driver's loop going
\* on: a decide call that can be made is made (main.py 190-222).
InitTicking == driver \in Scenarios /\ Init

SpecTicking == InitTicking /\ [][Decide]_vars /\ WF_vars(Decide)

----------------------------------------------------------------------------
(* The suppression on its own: one call on a list of raw candidates.       *)

\* Boxes cut at these coordinates, no larger than half the frame (the
\* detector's size filter, detector.py 96, lets nothing larger through).
XCuts == {0, 3, 20}

YCuts == {0, 10, 20}

CandidateBoxes ==
    { b \in { Box(x0, y0, x1, y1) : x0 \in XCuts, y0 \in YCuts, x1 \in XCuts, y1 \in YCuts } :
        /\ b.x_min < b.x_max
        /\ b.y_min < b.y_max
        /\ 2 * BoxArea(b) <= Units * Units }

\* Confidences in hundredths.
Confidences == {70, 90}

Candidates == { Detection(b, c) : b \in CandidateBoxes, c \in Confidences }

\* detect's call of _nms on the candidates of one frame (detector.py 122).
NmsCall ==
    /\ IsNone(nms_in)
    /\ IsNone(iou_probe)
    /\ \E dets \in SeqsUpTo(Candidates, MaxCands) :
          /\ nms_in' = Some(dets)
          /\ nms_out' = Some(Nms(dets, IouThreshold))
    /\ UNCHANGED <<iou_probe, outsideNms>>

\* Boxes cut at these coordinates, for single calls of _compute_iou.
ProbeCuts == {0, 3, 10, 20}

IouBoxes ==
    { b \in { Box(x0, y0, x1, y1) : x0 \in ProbeCuts, y0 \in ProbeCuts,
                                    x1 \in ProbeCuts, y1 \in ProbeCuts } :
        b.x_min < b.x_max /\ b.y_min < b.y_max }

\* _nms's call of _compute_iou on two boxes (detector.py 163), and the call
\* with the two boxes exchanged.
IouCall ==
    /\ IsNone(iou_probe)
    /\ IsNone(nms_in)
    /\ \E a \in IouBoxes : \E b \in IouBoxes :
          iou_probe' = Some([a |-> a, b |-> b,
                             ab |-> ComputeIou(a, b), ba |-> ComputeIou(b, a)])
    /\ UNCHANGED <<nms_in, nms_out, outsideNms>>

IdleEngine ==
    /\ driver = FreeDriver
    /\ params = DefaultParams
    /\ privacy_on = FreshEngine.privacy_on
    /\ risk_counter = FreshEngine.risk_counter
    /\ safe_frame_counter = FreshEngine.safe_frame_counter
    /\ safe_start_time = FreshEngine.safe_start_time
    /\ decision_history = <<>>
    /\ clock = 0
    /\ log = <<>>
    /\ twin = [e |-> FreshEngine, decision |-> NoDecision]

InitIdle == IdleEngine /\ InitNms /\ IdleDet /\ IdleVer /\ IdleEmb /\ IdleCam
    /\ IdlePipe /\ IdleEnr

NextNms == NmsCall \/ IouCall

SpecNms == InitIdle /\ [][NextNms]_vars

----------------------------------------------------------------------------
(* The detector on its own: detect calls on frames of one size, and        *)
(* to_pixel_coords on a box of the last result.                             *)

\* The rectangles a classifier may report in a frame: one below and one at
\* exactly 0.2% of the frame, one above 50%, and one at exactly 50% that
\* reaches five pixels over the right edge.
RawRects(frame) ==
    { Rect(0, 0, 1, 1),
      Rect(0, 0, 2, 1),
      Rect(0, 0, frame.w \div 2 + 1, frame.h),
      Rect(frame.w \div 2 + 5, 0, frame.w \div 2, frame.h) }

Outcomes(frame) ==
    {Raised} \cup { Returned(fs) : fs \in SeqsUpTo(RawRects(frame), MaxRaw) }

RECURSIVE CountFaces(_, _)
CountFaces(loaded, raw) ==
    IF loaded = <<>> THEN 0
    ELSE Len(raw[Head(loaded)].faces) + CountFaces(Tail(loaded), raw)

\* What detectMultiScale gives each loaded classifier for one frame.
RawResults(loaded, frame) ==
    { raw \in [ { loaded[i] : i \in 1..Len(loaded) } -> Outcomes(frame) ] :
        CountFaces(loaded, raw) <= MaxRaw }

\* One call of detect (detector.py 52-138).
Detect ==
    /\ det_ready
    /\ detection_count < MaxDetects
    /\ IsNone(pixel_box)
    /\ \E raw \in RawResults(cascades, det_frame) :
          /\ det_in' = Some(raw)
          /\ det_out' = Some(DetectOp(cascades, raw, det_frame))
    /\ det_raised' = IF IsNone(det_in) THEN {}
                     ELSE det_raised \cup { c \in DOMAIN Get(det_in) : Get(det_in)[c].raised }
    /\ detection_count' = detection_count + 1
    /\ UNCHANGED <<loadable, cascades, det_ready, det_frame, pixel_box, outsideDet>>

\* to_pixel_coords on a box of the last result, for the camera's frame
\* (main.py 209, utils.py 74).
ToPixel ==
    /\ ~IsNone(det_out)
    /\ IsNone(pixel_box)
    /\ \E i \in 1..Len(Get(det_out).boxes) : \E target \in FrameSizes :
          pixel_box' = Some([box    |-> Get(det_out).boxes[i],
                             target |-> target,
                             pixels |-> ToPixelCoords(Get(det_out).boxes[i], det_frame,
                                                      target.w, target.h)])
    /\ UNCHANGED <<loadable, cascades, det_ready, det_frame, detection_count,
                   det_in, det_out, det_raised, outsideDet>>

InitDetect == IdleEngine /\ InitNms /\ InitDet /\ IdleVer /\ IdleEmb /\ IdleCam
    /\ IdlePipe /\ IdleEnr

NextDetect == Detect \/ ToPixel

SpecDetect == InitDetect /\ [][NextDetect]_vars

----------------------------------------------------------------------------
(* The verifier on its own: one call of verify, verify_batch or            *)
(* similarity on a verifier built for some state of the template file.      *)

\* Embeddings of lengths 0, 5 and 10.
Vectors == { <<3, 4>>, <<4, 3>>, <<5, 0>>, <<-3, -4>>, <<0, 0>>, <<6, 8>> }

\* What a caller may hand in for an embedding: nothing, an empty array, a
\* vector.
EmbeddingArgs == {None, Some(<<>>)} \cup { Some(v) : v \in Vectors }

TemplateFiles ==
    { TemplateFile("missing", <<>>), TemplateFile("unreadable", <<>>),
      TemplateFile("array", <<3, 4>>), TemplateFile("array", <<>>) }

Thresholds == { DefaultSimilarityThreshold, [num |-> 80, den |-> 100] }

InitVer ==
    \E file \in TemplateFiles : \E threshold \in Thresholds :
        BuildVerifier(file, threshold)

\* verify(embedding) (verify.py 61-79).
VerifyCall ==
    /\ ver_ready
    /\ IsNone(ver_call)
    /\ \E e \in EmbeddingArgs :
          ver_call' = Some([op |-> "verify", embedding |-> e,
                            result |-> Verify(template_embedding, similarity_threshold, e)])
    /\ UNCHANGED <<template_file, ver_ready, template_embedding, similarity_threshold,
                   outsideVer>>

\* verify_batch(embeddings, boxes) (verify.py 81-108), as main.py 214 calls
\* it, the two lists of any lengths.
VerifyBatchCall ==
    /\ ver_ready
    /\ IsNone(ver_call)
    /\ \E es \in SeqsUpTo(Vectors, MaxBatch) : \E bs \in SeqsUpTo({BigA, BigB}, MaxBatch) :
          ver_call' = Some([op |-> "verify_batch", embeddings |-> es, boxes |-> bs,
                            result |-> VerifyBatch(template_embedding, similarity_threshold,
                                                   es, bs)])
    /\ UNCHANGED <<template_file, ver_ready, template_embedding, similarity_threshold,
                   outsideVer>>

\* self.embedder.similarity(a, b) (embedder.py 167-191).
SimilarityCall ==
    /\ ver_ready
    /\ IsNone(ver_call)
    /\ \E a \in EmbeddingArgs : \E b \in EmbeddingArgs :
          ver_call' = Some([op |-> "similarity", a |-> a, b |-> b,
                            result |-> Similarity(a, b)])
    /\ UNCHANGED <<template_file, ver_ready, template_embedding, similarity_threshold,
                   outsideVer>>

InitVerify == IdleEngine /\ InitNms /\ IdleDet /\ InitVer /\ IdleEmb /\ IdleCam
    /\ IdlePipe /\ IdleEnr

NextVerify == VerifyCall \/ VerifyBatchCall \/ SimilarityCall

SpecVerify == InitVerify /\ [][NextVerify]_vars

----------------------------------------------------------------------------
(* The embedders on their own: compute_embedding calls on two embedders    *)
(* built alike.                                                             *)

FaceCrops == {"blank", "faceA", "faceB"}

\* compute_embedding(face_crop) on one of the embedders (embedder.py 48-64;
\* main.py 210, enroll.py 164).
Embed ==
    /\ Len(emb_log) < MaxEmbeds
    /\ \E id \in {1, 2} : \E face_crop \in FaceCrops :
       \E r \in ComputeEmbedding(embedders[id], face_crop) :
          /\ embedders' = [embedders EXCEPT ![id] = r.e]
          /\ emb_log' = Append(emb_log, [id |-> id, crop |-> face_crop,
                                         before |-> embedders[id], after |-> r.e,
                                         strategy |-> r.strategy, out |-> r.out])
    /\ UNCHANGED <<model_files, outsideEmb>>

InitEmbed == IdleEngine /\ InitNms /\ IdleDet /\ IdleVer /\ InitEmb /\ IdleCam
    /\ IdlePipe /\ IdleEnr

NextEmbed == Embed

SpecEmbed == InitEmbed /\ [][NextEmbed]_vars

----------------------------------------------------------------------------
(* CameraStream (camera.py): the main thread and the capture thread, one   *)
(* statement at a time.  A frame is the number of its delivery by the      *)
(* device.                                                                  *)

\* start() (35-56): the device opens and the thread is started, or it does
\* not and start returns False.
Start ==
    /\ main.pc = "new"
    /\ IF device.openable
       THEN /\ cam' = [cam EXCEPT !.cap = "open", !.running = TRUE]
            /\ capture' = [capture EXCEPT !.pc = "while"]
            /\ main' = [main EXCEPT !.pc = "started"]
       ELSE /\ cam' = [cam EXCEPT !.cap = "unopened"]
            /\ main' = [main EXCEPT !.pc = "failed"]
            /\ UNCHANGED capture
    /\ UNCHANGED <<device, cam_obs, outsideCam>>

\* A fault: the loop goes on whatever the flag says.
CaptureWhileIgnoresFlag ==
    /\ capture.pc = "while"
    /\ capture' = [capture EXCEPT !.pc = "read"]
    /\ UNCHANGED <<device, cam, main, cam_obs, outsideCam>>

\* while self.running (60).
CaptureWhile ==
    /\ capture.pc = "while"
    /\ capture' = [capture EXCEPT !.pc = IF cam.running THEN "read" ELSE "done"]
    /\ UNCHANGED <<device, cam, main, cam_obs, outsideCam>>

\* self.cap.read() returns a frame (61).
CaptureReadFrame ==
    /\ capture.pc = "read"
    /\ cam.cap = "open"
    /\ device.delivered < MaxFrames
    /\ device' = [device EXCEPT !.delivered = device.delivered + 1]
    /\ capture' = [pc |-> "lock", frame |-> Some(device.delivered + 1)]
    /\ UNCHANGED <<cam, main, cam_obs, outsideCam>>

\* self.cap.read() returns ret False (61-63).
CaptureReadFails ==
    /\ capture.pc = "read"
    /\ capture' = [pc |-> "retry", frame |-> None]
    /\ UNCHANGED <<device, cam, main, cam_obs, outsideCam>>

\* time.sleep(0.01); continue (64-65).
CaptureRetry ==
    /\ capture.pc = "retry"
    /\ capture' = [capture EXCEPT !.pc = "while"]
    /\ UNCHANGED <<device, cam, main, cam_obs, outsideCam>>

\* with self.frame_lock: entered (68).
CaptureAcquire ==
    /\ capture.pc = "lock"
    /\ cam.frame_lock = "free"
    /\ cam' = [cam EXCEPT !.frame_lock = "capture"]
    /\ capture' = [capture EXCEPT !.pc = "store"]
    /\ UNCHANGED <<device, main, cam_obs, outsideCam>>

\* A fault: the frame is stored only once the previous one has been read.
CaptureStoreOnceConsumed ==
    /\ capture.pc = "store"
    /\ ~cam_obs.unread
    /\ cam' = [cam EXCEPT !.latest_frame = capture.frame]
    /\ capture' = [capture EXCEPT !.pc = "count"]
    /\ cam_obs' = [cam_obs EXCEPT !.unread = TRUE,
                                  !.overwritten = cam_obs.overwritten \/ cam_obs.unread]
    /\ UNCHANGED <<device, main, outsideCam>>

\* self.latest_frame = frame (69).
CaptureStore ==
    /\ capture.pc = "store"
    /\ cam' = [cam EXCEPT !.latest_frame = capture.frame]
    /\ capture' = [capture EXCEPT !.pc = "count"]
    /\ cam_obs' = [cam_obs EXCEPT !.unread = TRUE,
                                  !.overwritten = cam_obs.overwritten \/ cam_obs.unread,
                                  !.stores = cam_obs.stores + 1]
    /\ UNCHANGED <<device, main, outsideCam>>

\* self.frame_count += 1 (70).
CaptureCount ==
    /\ capture.pc = "count"
    /\ cam' = [cam EXCEPT !.frame_count = cam.frame_count + 1]
    /\ capture' = [capture EXCEPT !.pc = "unlock"]
    /\ UNCHANGED <<device, main, cam_obs, outsideCam>>

\* with self.frame_lock: left (70).
CaptureRelease ==
    /\ capture.pc = "unlock"
    /\ cam' = [cam EXCEPT !.frame_lock = "free"]
    /\ capture' = [capture EXCEPT !.pc = "sleep"]
    /\ UNCHANGED <<device, main, cam_obs, outsideCam>>

\* time.sleep(self.frame_time) (73).
CaptureSleep ==
    /\ capture.pc = "sleep"
    /\ capture' = [capture EXCEPT !.pc = "while"]
    /\ UNCHANGED <<device, cam, main, cam_obs, outsideCam>>

\* A step of the capture thread.
CaptureStep ==
    \/ CaptureWhile
    \/ CaptureReadFrame
    \/ CaptureReadFails
    \/ CaptureRetry
    \/ CaptureAcquire
    \/ CaptureStore
    \/ CaptureCount
    \/ CaptureRelease
    \/ CaptureSleep

\* A fault: the slot is read without the lock.
GetAcquireNoLock ==
    /\ main.pc = "started"
    /\ main' = [main EXCEPT !.pc = "get"]
    /\ UNCHANGED <<device, cam, capture, cam_obs, outsideCam>>

\* get_latest_frame: with self.frame_lock entered (82).
GetAcquire ==
    /\ main.pc = "started"
    /\ cam.frame_lock = "free"
    /\ cam' = [cam EXCEPT !.frame_lock = "main"]
    /\ main' = [main EXCEPT !.pc = "get"]
    /\ UNCHANGED <<device, capture, cam_obs, outsideCam>>

\* get_latest_frame: the value returned is built (83-85).
GetRead ==
    /\ main.pc = "get"
    /\ main' = [pc |-> "got",
                got |-> IF IsNone(cam.latest_frame)
                        THEN Some([frame |-> None, frame_count |-> -1])
                        ELSE Some([frame |-> cam.latest_frame,
                                   frame_count |-> cam.frame_count])]
    /\ cam_obs' = [cam_obs EXCEPT !.unread = FALSE]
    /\ UNCHANGED <<device, cam, capture, outsideCam>>

\* get_latest_frame: with self.frame_lock left, on return (84-85).
GetRelease ==
    /\ main.pc = "got"
    /\ cam' = [cam EXCEPT !.frame_lock = "free"]
    /\ main' = [main EXCEPT !.pc = "started"]
    /\ UNCHANGED <<device, capture, cam_obs, outsideCam>>

\* stop(): self.running = False (96).
StopFlag ==
    /\ main.pc = "started"
    /\ cam' = [cam EXCEPT !.running = FALSE]
    /\ main' = [main EXCEPT !.pc = "join"]
    /\ UNCHANGED <<device, capture, cam_obs, outsideCam>>

\* stop(): self.thread.join(timeout=2.0) returns (97-98), the thread having
\* ended or the two seconds having passed.
StopJoin ==
    /\ main.pc = "join"
    /\ main' = [main EXCEPT !.pc = "release"]
    /\ UNCHANGED <<device, cam, capture, cam_obs, outsideCam>>

\* stop(): self.cap.release() (99-100).
StopRelease ==
    /\ main.pc = "release"
    /\ cam' = [cam EXCEPT !.cap = "released"]
    /\ main' = [main EXCEPT !.pc = "stopped"]
    /\ cam_obs' = [cam_obs EXCEPT !.at_return = Some(capture.pc)]
    /\ UNCHANGED <<device, capture, outsideCam>>

InitCamera == IdleEngine /\ InitNms /\ IdleDet /\ IdleVer /\ IdleEmb /\ InitCam
    /\ IdlePipe /\ IdleEnr

NextCamera ==
    \/ Start
    \/ CaptureStep
    \/ GetAcquire
    \/ GetRead
    \/ GetRelease
    \/ StopFlag
    \/ StopJoin
    \/ StopRelease

SpecCamera == InitCamera /\ [][NextCamera]_vars

\* The steps of the capture thread that do not wait for the device.
CaptureLocalStep ==
    \/ CaptureWhile
    \/ CaptureRetry
    \/ CaptureAcquire
    \/ CaptureStore
    \/ CaptureCount
    \/ CaptureRelease
    \/ CaptureSleep

\* Both threads are scheduled: a step of the capture thread that needs
\* nothing from the device, and a step of stop(), is taken when it stays
\* possible.  Nothing is assumed of cap.read(), which answers when the
\* device does.
SpecCameraFair ==
    /\ SpecCamera
    /\ WF_vars(CaptureLocalStep)
    /\ WF_vars(StopJoin)
    /\ WF_vars(StopRelease)

----------------------------------------------------------------------------
(* The pipeline driver: main() from camera.start() to camera.stop()        *)
(* (main.py 154-321), on the camera and the decision engine above.          *)

\* The engine as main() builds it, verification being disabled (main.py 96,
\* 126-133), for small debounce windows set in the configuration.
PipelineConfigs == { c \in FreeConfigs : ~c.use_identity_verification }

\* What detect returns for a frame: no face, or three.
PipelineInputs == {InEmpty, InCrowd}

\* Time between two decide calls, in 10 ms steps.
PipelineGaps == {3}

\* The keys the loop acts on (main.py 284-292), or none.
Keys == {"none", "q", "p", "r"}

\* A fault: the overlay is shown or hidden at every decision.
OverlayCallEveryTick(last_privacy_state, on) == IF on THEN "show" ELSE "hide"

\* The call made on the overlay after a decision (main.py 225-235).
OverlayCall(last_privacy_state, on) ==
    IF on # last_privacy_state
    THEN IF on THEN "show" ELSE "hide"
    ELSE "none"

\* show_privacy_overlay, hide_privacy_overlay (fullscreen_overlay.py
\* 118-127, 46-54), and the record of the tick.
Overlaid(o, on, call) ==
    [visible |-> IF call = "none" THEN o.visible ELSE call = "show",
     calls   |-> IF call = "none" THEN o.calls ELSE o.calls + 1,
     ticks   |-> Append(o.ticks, [on |-> on, call |-> call])]

\* A fault: the result of camera.start() is not looked at.
MainStartUnchecked ==
    /\ pipe.pc = "start"
    /\ main.pc \in {"started", "failed"}
    /\ pipe' = [pipe EXCEPT !.pc = "loop"]
    /\ UNCHANGED <<engineVars, camVars, overlay, outsidePipeline>>

\* if not camera.start(): return (main.py 154-156), camera.start() having
\* returned.
MainStartReturned ==
    /\ pipe.pc = "start"
    /\ main.pc \in {"started", "failed"}
    /\ pipe' = [pipe EXCEPT !.pc = IF main.pc = "failed" THEN "returned" ELSE "loop"]
    /\ UNCHANGED <<engineVars, camVars, overlay, outsidePipeline>>

\* The capture thread beside main(): followed until it is back at the head
\* of its loop with a frame stored, and again once stop() has cleared the
\* flag; the frames it would store later are like the first to main().
PipelineCapture ==
    /\ IsNone(cam.latest_frame) \/ capture.pc # "while" \/ ~cam.running
    /\ CaptureStep

\* camera.get_latest_frame() is called at the head of the loop (main.py 192).
LoopGet ==
    /\ pipe.pc = "loop"
    /\ pipe.frame_counter < MaxLoops
    /\ IsNone(main.got)
    /\ GetAcquire

\* A fault: the pause is not looked at.
DueWhilePaused(frame_counter, detect_interval, paused) ==
    frame_counter % detect_interval = 0

\* if frame_counter % detect_interval == 0 and not paused (main.py 200).
Due(frame_counter, detect_interval, paused) ==
    frame_counter % detect_interval = 0 /\ ~paused

\* The rest of one pass of the loop for a frame (main.py 197-303): detect
\* and decide when due, the overlay, the key read by waitKey.
LoopPass(inp, dt, key) ==
    LET due  == Due(pipe.frame_counter, pipe.detect_interval, pipe.paused)
        t    == clock + dt
        d    == DecideOp(Self, params, inp, t, t)
        on   == d.decision.privacy_on
        call == OverlayCall(pipe.last_privacy_state, on)
        e1   == IF due THEN d.e ELSE Self
        e2   == IF key = "r" THEN FreshEngine ELSE e1
        ov   == IF due THEN Overlaid(overlay, on, call) ELSE overlay
        left == [e |-> e2, visible |-> ov.visible, calls |-> ov.calls,
                 detection_count |-> IF due THEN pipe.detection_count + 1
                                     ELSE pipe.detection_count,
                 history |-> IF due THEN Len(decision_history) + 1
                             ELSE Len(decision_history),
                 frame_counter |-> pipe.frame_counter]
    IN /\ privacy_on' = e2.privacy_on
       /\ risk_counter' = e2.risk_counter
       /\ safe_frame_counter' = e2.safe_frame_counter
       /\ safe_start_time' = e2.safe_start_time
       /\ decision_history' = IF due
                              THEN TrimHistory(Append(decision_history, <<t, d.decision>>))
                              ELSE decision_history
       /\ clock' = IF due THEN t ELSE clock
       /\ overlay' = ov
       /\ pipe' = [pipe EXCEPT
                     !.detection_count = IF due THEN @ + 1 ELSE @,
                     !.tick_frames = IF due THEN Append(@, pipe.frame_counter) ELSE @,
                     !.at_pause = IF key = "p"
                                  THEN IF pipe.paused THEN None ELSE Some(left)
                                  ELSE @,
                     !.last_privacy_state = IF due /\ call # "none" THEN on ELSE @,
                     !.paused = IF key = "p" THEN ~@ ELSE @,
                     !.frame_counter = IF key = "q" THEN @ ELSE @ + 1,
                     !.pc = IF key = "q" THEN "finally" ELSE "loop"]

\* One pass of the loop once get_latest_frame has returned (main.py
\* 193-303): without a frame, sleep and go back to the head.
LoopBody ==
    /\ pipe.pc = "loop"
    /\ main.pc = "started"
    /\ ~IsNone(main.got)
    /\ main' = [main EXCEPT !.got = None]
    /\ IF IsNone(Get(main.got).frame)
       THEN UNCHANGED <<privacy_on, risk_counter, safe_frame_counter, safe_start_time,
                        decision_history, clock, pipe, overlay>>
       ELSE \E inp \in PipelineInputs : \E dt \in PipelineGaps : \E key \in Keys :
               LoopPass(inp, dt, key)
    /\ UNCHANGED <<params, driver, log, twin, device, cam, capture, cam_obs,
                   outsidePipeline>>

\* finally: camera.stop() is called (main.py 319).
MainStop ==
    /\ pipe.pc = "finally"
    /\ StopFlag

\* main() returns, camera.stop() having returned (main.py 320-321).
MainClosed ==
    /\ pipe.pc = "finally"
    /\ main.pc = "stopped"
    /\ pipe' = [pipe EXCEPT !.pc = "closed"]
    /\ UNCHANGED <<engineVars, camVars, overlay, outsidePipeline>>

InitPipeline ==
    /\ driver = FreeDriver
    /\ params \in PipelineConfigs
    /\ privacy_on = FreshEngine.privacy_on
    /\ risk_counter = FreshEngine.risk_counter
    /\ safe_frame_counter = FreshEngine.safe_frame_counter
    /\ safe_start_time = FreshEngine.safe_start_time
    /\ decision_history = <<>>
    /\ clock = 0
    /\ log = <<>>
    /\ twin = [e |-> FreshEngine, decision |-> NoDecision]
    /\ InitNms /\ IdleDet /\ IdleVer /\ IdleEmb /\ InitCam /\ IdleEnr
    /\ \E interval \in DetectIntervals : BuildPipeline(interval)

NextPipeline ==
    \/ Start
    \/ MainStartReturned
    \/ PipelineCapture
    \/ LoopGet
    \/ GetRead
    \/ GetRelease
    \/ LoopBody
    \/ MainStop
    \/ StopJoin
    \/ StopRelease
    \/ MainClosed

SpecPipeline == InitPipeline /\ [][NextPipeline]_vars

----------------------------------------------------------------------------
(* The enrollment flow: the loop of enroll_user() and what it saves        *)
(* (enroll.py 65-215), the camera started and delivering frames.  An        *)
(* embedding is not modelled by its value: the template is known by the     *)
(* number of samples it is the mean of.                                     *)

\* Detection runs every third frame (enroll.py 77).
DetectEvery == 3

\* The number of samples that ends the capture (enroll.py 169).
FullSamples == 15

\* The number of samples the flow asks for (enroll.py 60, 178).
EnoughSamples == 10

\* The keys the loop acts on (enroll.py 141-150), or none.
EnrollKeys == {"none", "q", "e", " "}

\* One pass of the loop for a frame (enroll.py 73-179): the detection when
\* due, finding faces or not, then the key; a capture needs a face in the
\* last detection and a crop that is not empty.
EnrollPass(found, key, crop_ok) ==
    LET face == IF enroll.frame_counter % DetectEvery = 0 THEN Some(found) ELSE enroll.face
        take == key = " " /\ enroll.enrolling /\ ~IsNone(face) /\ Get(face) /\ crop_ok
        n    == enroll.captured_crops + 1
    IN CASE key = "q" ->
              [enroll EXCEPT !.face = face, !.pc = "finish"]
         [] key = "e" /\ ~enroll.enrolling ->
              [enroll EXCEPT !.face = face, !.enrolling = TRUE, !.captured_crops = 0,
                             !.captured_embeddings = 0, !.frame_counter = @ + 1]
         [] take ->
              [enroll EXCEPT !.face = face, !.captured_crops = n,
                             !.captured_embeddings = @ + 1,
                             !.enrolling = ~(n >= FullSamples),
                             !.frame_counter = @ + 1]
         [] OTHER ->
              [enroll EXCEPT !.face = face, !.frame_counter = @ + 1]

\* After the loop (enroll.py 181-215): the template and its metadata are
\* saved when any embedding was captured.
EnrollFinish(s) ==
    IF s.captured_embeddings > 0
    THEN [s EXCEPT !.pc = "saved",
                   !.template = Some([mean_of |-> s.captured_embeddings,
                                      num_samples |-> s.captured_crops])]
    ELSE [s EXCEPT !.pc = "unsaved"]

\* A pass of the loop with a frame.
EnrollFrame ==
    /\ enroll.pc = "loop"
    /\ enroll.frame_counter < MaxEnrollFrames
    /\ \E found \in BOOLEAN : \E key \in EnrollKeys : \E crop_ok \in BOOLEAN :
          enroll' = EnrollPass(found, key, crop_ok)
    /\ UNCHANGED outsideEnr

\* The loop was left with 'q'.
EnrollSave ==
    /\ enroll.pc = "finish"
    /\ enroll' = EnrollFinish(enroll)
    /\ UNCHANGED outsideEnr

InitEnroll ==
    /\ IdleEngine /\ InitNms /\ IdleDet /\ IdleVer /\ IdleEmb /\ IdleCam /\ IdlePipe
    /\ BuildEnroll

NextEnroll == EnrollFrame \/ EnrollSave

SpecEnroll == InitEnroll /\ [][NextEnroll]_vars

----------------------------------------------------------------------------
(* Observations on the call log, stated without the engine's own fields.  *)

Last == log[Len(log)]

Decided == Len(log) >= 1 /\ Last.kind = "decide"

\* A tick is risky when the count it reported reaches face_count_threshold.
RiskyTick(en) ==
    en.kind = "decide" /\ en.decision.other_face_count >= params.face_count_threshold

SafeTick(en) ==
    en.kind = "decide" /\ en.decision.other_face_count < params.face_count_threshold

\* The calls made since construction or the last reset().
LastReset ==
    LET R == { i \in 1..Len(log) : log[i].kind = "reset" }
    IN IF R = {} THEN 0 ELSE CHOOSE i \in R : \A j \in R : j <= i

SinceFresh == SubSeq(log, LastReset + 1, Len(log))

\* The most recent risky tick (0: none yet).
LastRisky ==
    LET R == { i \in 1..Len(log) : RiskyTick(log[i]) }
    IN IF R = {} THEN 0 ELSE CHOOSE i \in R : \A j \in R : j <= i

\* Where the run of safe ticks ending at the last call begins.
SafeRunStart ==
    LET S == { j \in 1..Len(log) : \A k \in j..Len(log) : SafeTick(log[k]) }
    IN CHOOSE j \in S : \A k \in S : j <= k

TurnedOff == Decided /\ Last.before /\ ~Last.decision.privacy_on

\* C1: from a fresh or reset engine fed only risky ticks, privacy_on is false
\* after each of the first debounce_on_frames - 1 ticks and true from the
\* debounce_on_frames-th on; with the defaults: false after the first tick,
\* true after the second.
C1_OnAtDebounceOnFrames ==
    /\ LET run == SinceFresh
       IN (Len(run) >= 1 /\ \A i \in 1..Len(run) : RiskyTick(run[i]))
          => /\ privacy_on <=> Len(run) >= params.debounce_on_frames
             /\ Last.decision.privacy_on = privacy_on
    /\ (driver.mode = "scenario" /\ driver.lead = 2 /\ Len(log) = 1) => ~privacy_on
    /\ (driver.mode = "scenario" /\ driver.lead = 2 /\ Len(log) = 2) => privacy_on

C1_Witness ==
    /\ driver.name = "burst"
    /\ Len(log) = 2
    /\ RiskyTick(log[1]) /\ RiskyTick(log[2])
    /\ ~log[1].decision.privacy_on
    /\ log[2].decision.privacy_on

\* C2: a decide call that finds privacy_on true returns it false exactly when
\* the tick is safe, the run of safe ticks it ends has lasted at least
\* debounce_off_seconds and counts at least debounce_off_frames ticks; 40 safe
\* ticks 10 ms apart and 5 safe ticks 1 s apart leave it on.
C2_OffNeedsTimeAndFrames ==
    /\ (Decided /\ Last.before)
       => (~Last.decision.privacy_on
           <=> /\ SafeTick(Last)
               /\ Last.t2 - log[SafeRunStart].t1 >= params.debounce_off_seconds
               /\ Len(log) - SafeRunStart + 1 >= params.debounce_off_frames)
    /\ (driver.name = "burst" /\ Len(log) > driver.lead /\ Len(log) <= driver.lead + 40)
       => privacy_on
    /\ (driver.name = "slow" /\ Len(log) > driver.lead /\ Len(log) <= driver.lead + 5)
       => privacy_on

C2_Witness ==
    /\ driver.name = "steady"
    /\ TurnedOff
    /\ Len(log) = driver.lead + DefaultDebounceOffFrames

\* C3: when decide turns privacy_on from true to false, the last
\* debounce_off_frames calls were all safe ticks, and at least
\* debounce_off_seconds have passed since the first safe tick after the most
\* recent risky tick.
C3_ReleaseNeedsContinuousSafety ==
    TurnedOff
    => LET n == Len(log)
           k == params.debounce_off_frames
           j == LastRisky
       IN /\ n >= k
          /\ \A i \in (n - k + 1)..n : SafeTick(log[i])
          /\ j >= 1 /\ j < n
          /\ SafeTick(log[j + 1])
          /\ Last.t2 - log[j + 1].t1 >= params.debounce_off_seconds

C3_Witness ==
    /\ driver.mode = "free"
    /\ TurnedOff
    /\ params.debounce_off_frames = 3
    /\ \E i \in 1..Len(log) : RiskyTick(log[i])

\* A reason that reports zero faces.
ReportsZeroFaces(r) == r.kind \in {"SafeFaces", "RiskFaces"} /\ r.a = 0

ZeroBoxTick(en) == en.kind = "decide" /\ en.inp.boxes = <<>> /\ IsNone(en.inp.identities)

\* C4: while a fresh engine without identity verification has only been fed
\* detection results with zero boxes, every decision has privacy_on false and
\* a reason that reports zero faces.
C4_ZeroBoxesReported ==
    (/\ ~params.use_identity_verification
     /\ Len(log) >= 1
     /\ \A i \in 1..Len(log) : ZeroBoxTick(log[i]))
    => /\ ~Last.decision.privacy_on
       /\ ReportsZeroFaces(Last.decision.reason)

\* C5: right after reset() the debounce fields are those of a new engine, and
\* from then on every decision equals the one an engine constructed at the
\* moment of the reset returns for the same ticks.
C5_ResetIsFresh ==
    /\ (Len(log) >= 1 /\ Last.kind = "reset") => Self = FreshEngine
    /\ Decided => /\ Last.decision = twin.decision
                  /\ privacy_on = twin.e.privacy_on

C5_Witness ==
    /\ Decided
    /\ privacy_on
    /\ \E i \in 1..Len(log) :
          log[i].kind = "reset" /\ log[i].before /\ i < Len(log)

\* Every (time, decision) pair decide has produced, in call order.
Produced ==
    LET D == SelectSeq(log, LAMBDA en : en.kind = "decide")
    IN [i \in 1..Len(D) |-> <<D[i].t2, D[i].decision>>]

\* C6: after n decide calls the history holds the last min(n, 100) decisions
\* in call order, and never more than 100.
C6_HistoryIsLast100 ==
    LET n == Len(Produced)
        m == IF n <= 100 THEN n ELSE 100
    IN /\ Len(decision_history) = m
       /\ Len(decision_history) <= 100
       /\ decision_history = SubSeq(Produced, n - m + 1, n)

C6_Witness ==
    /\ Len(Produced) = 103
    /\ Len(decision_history) = 100
    /\ decision_history[1] = Produced[4]
    /\ decision_history[1] # Produced[1]

\* The area ratio of a box reaches the engine's area_ratio_threshold.
CloseEnough(b) ==
    (b.x_max - b.x_min) * (b.y_max - b.y_min) * params.area_ratio_threshold.den
        >= params.area_ratio_threshold.num * Units * Units

\* The OTHER-labelled identities that are close enough, by position.
CountedOthers(ids) ==
    { i \in 1..Len(ids) : ids[i].label = "OTHER" /\ CloseEnough(ids[i].box) }

VisibleBoxes(boxes) == { i \in 1..Len(boxes) : CloseEnough(boxes[i]) }

LargestArea(boxes, I) ==
    IF I = {} THEN 0
    ELSE LET i == CHOOSE i \in I : \A j \in I : BoxArea(boxes[j]) <= BoxArea(boxes[i])
         IN BoxArea(boxes[i])

\* C7: in verified mode other_face_count is the number of OTHER identities
\* whose area ratio is at least area_ratio_threshold, and risk_score the
\* largest area ratio among them (0 when there is none).
C7_VerifiedCount ==
    (Decided /\ params.use_identity_verification /\ ~IsNone(Last.inp.identities))
    => LET ids == Get(Last.inp.identities)
       IN /\ Last.decision.other_face_count = Cardinality(CountedOthers(ids))
          /\ Last.decision.risk_score = LargestArea(BoxesOf(ids), CountedOthers(ids))

C7_Witness ==
    /\ Decided /\ params.use_identity_verification /\ ~IsNone(Last.inp.identities)
    /\ LET ids == Get(Last.inp.identities)
       IN /\ \E i \in 1..Len(ids) : ids[i].label = "ME" /\ CloseEnough(ids[i].box)
          /\ \E i \in 1..Len(ids) : ids[i].label = "OTHER" /\ ~CloseEnough(ids[i].box)
          /\ \E i \in 1..Len(ids) : ids[i].label = "OTHER" /\ BoxArea(ids[i].box) = 8
    /\ Last.decision.other_face_count = 1
    /\ Last.decision.risk_score = 8

\* C8: in unverified mode other_face_count is max(0, visible - 1), visible
\* being the number of boxes whose area ratio is at least
\* area_ratio_threshold, and the tick is treated as risky (risk_counter is
\* advanced) exactly when other_face_count >= face_count_threshold.
C8_UnverifiedCount ==
    (Decided /\ ~(params.use_identity_verification /\ ~IsNone(Last.inp.identities)))
    => LET visible == Cardinality(VisibleBoxes(Last.inp.boxes))
       IN /\ Last.decision.other_face_count = (IF visible >= 1 THEN visible - 1 ELSE 0)
          /\ (risk_counter > 0
              <=> Last.decision.other_face_count >= params.face_count_threshold)

C8_Witness ==
    /\ Decided /\ IsNone(Last.inp.identities) /\ ~params.use_identity_verification
    /\ Len(Last.inp.boxes) = 3
    /\ Cardinality(VisibleBoxes(Last.inp.boxes)) = 2
    /\ Last.decision.other_face_count = 1
    /\ params.face_count_threshold = 1
    /\ risk_counter = 1

\* C9 as stated: an identity list alone selects verified mode.
C9_ModeByListAlone ==
    Decided
    => /\ ~IsNone(Last.inp.identities)
          => Last.decision.other_face_count
               = Cardinality(CountedOthers(Get(Last.inp.identities)))
       /\ IsNone(Last.inp.identities)
          => Last.decision.other_face_count
               = Max(0, Cardinality(VisibleBoxes(Last.inp.boxes)) - 1)

\* C9: decide counts in verified mode (OTHER-labelled identities only) exactly
\* when the engine was constructed with use_identity_verification and an
\* identity list is supplied; in every other case it counts in unverified
\* mode (all boxes but one).
C9_ModeByFlagAndList ==
    Decided
    => IF params.use_identity_verification /\ ~IsNone(Last.inp.identities)
       THEN Last.decision.other_face_count
              = Cardinality(CountedOthers(Get(Last.inp.identities)))
       ELSE Last.decision.other_face_count
              = Max(0, Cardinality(VisibleBoxes(Last.inp.boxes)) - 1)

C9_Witness ==
    /\ Decided
    /\ ~params.use_identity_verification
    /\ ~IsNone(Last.inp.identities)
    /\ Cardinality(CountedOthers(Get(Last.inp.identities))) = 1
    /\ Cardinality(VisibleBoxes(Last.inp.boxes)) = 1
    /\ Last.decision.other_face_count = 0

----------------------------------------------------------------------------
(* Observations on one suppression.                                        *)

\* The unit cells a box covers.
Cells(b) == (b.x_min .. b.x_max - 1) \X (b.y_min .. b.y_max - 1)

InterCells(a, b) == Cardinality(Cells(a) \cap Cells(b))

UnionCells(a, b) == Cardinality(Cells(a) \cup Cells(b))

\* IoU strictly below, at most, exactly 0.15.
IouBelow(a, b) == 100 * InterCells(a, b) < 15 * UnionCells(a, b)

IouAtMost(a, b) == 100 * InterCells(a, b) <= 15 * UnionCells(a, b)

IouExactly(a, b) == 100 * InterCells(a, b) = 15 * UnionCells(a, b)

Suppressed == ~IsNone(nms_out)

\* C10 as stated: every two distinct retained candidates have IoU strictly
\* below 0.15.
C10_RetainedStrictlyBelow ==
    Suppressed
    => LET kept == Get(nms_out)
       IN \A i \in 1..Len(kept) : \A j \in 1..Len(kept) :
             i # j => IouBelow(kept[i].box, kept[j].box)

\* C10: every two distinct retained candidates have IoU at most 0.15, and a
\* candidate whose IoU with every other candidate is at most 0.15 (exactly
\* 0.15 included) is retained.
C10_RetainedAtMost ==
    Suppressed
    => LET dets == Get(nms_in)
           kept == Get(nms_out)
       IN /\ \A i \in 1..Len(kept) : \A j \in 1..Len(kept) :
                i # j => IouAtMost(kept[i].box, kept[j].box)
          /\ \A i \in 1..Len(dets) :
                (\A j \in 1..Len(dets) : j # i => IouAtMost(dets[i].box, dets[j].box))
                => \E k \in 1..Len(kept) : kept[k] = dets[i]

C10_Witness ==
    /\ Suppressed
    /\ Len(Get(nms_in)) = 3
    /\ Len(Get(nms_out)) = 2
    /\ IouExactly(Get(nms_out)[1].box, Get(nms_out)[2].box)

----------------------------------------------------------------------------
(* C32: what suppression drops.                                            *)

\* How often the candidate d occurs in the list.
Occurrences(dets, d) == Cardinality({ i \in 1..Len(dets) : dets[i] = d })

\* The candidates handed in of which fewer came out.
DroppedCandidates ==
    { d \in { Get(nms_in)[i] : i \in 1..Len(Get(nms_in)) } :
        Occurrences(Get(nms_out), d) < Occurrences(Get(nms_in), d) }

\* C32: every candidate the suppression drops has IoU above 0.15 with a
\* retained candidate at least as confident as itself, and the retained
\* candidates are in descending order of confidence.
C32_NothingDroppedNeedlessly ==
    Suppressed
    => LET kept == Get(nms_out)
       IN /\ \A d \in DroppedCandidates :
                \E k \in 1..Len(kept) :
                    /\ kept[k].confidence >= d.confidence
                    /\ ~IouAtMost(d.box, kept[k].box)
          /\ \A i \in 1..Len(kept) : \A j \in 1..Len(kept) :
                i < j => kept[i].confidence >= kept[j].confidence

\* Of three candidates two are retained, the more confident first, and the
\* one dropped is as confident as the retained one it overlaps.
C32_Witness ==
    /\ Suppressed
    /\ Len(Get(nms_in)) = 3
    /\ Len(Get(nms_out)) = 2
    /\ Get(nms_out)[1].confidence > Get(nms_out)[2].confidence
    /\ \E d \in DroppedCandidates : \E k \in 1..2 :
          /\ Get(nms_out)[k].confidence = d.confidence
          /\ Get(nms_out)[k] # d
          /\ ~IouAtMost(d.box, Get(nms_out)[k].box)

----------------------------------------------------------------------------
(* C11, C13: the most confident candidate, and single overlap values.      *)

\* The largest confidence among the candidates handed in.
TopConfidence(dets) ==
    CHOOSE c \in { dets[i].confidence : i \in 1..Len(dets) } :
        \A i \in 1..Len(dets) : dets[i].confidence <= c

IouHalf(a, b) == 2 * InterCells(a, b) = UnionCells(a, b)

\* C11: a candidate of maximal confidence among the candidates is always
\* retained; of two candidates with IoU 0.5 and confidences 0.9 and 0.7,
\* exactly one is retained and it is the one with confidence 0.9.
C11_MostConfidentRetained ==
    (Suppressed /\ Get(nms_in) # <<>>)
    => LET dets == Get(nms_in)
           kept == Get(nms_out)
       IN /\ \E k \in 1..Len(kept) : kept[k].confidence = TopConfidence(dets)
          /\ (/\ Len(dets) = 2
              /\ IouHalf(dets[1].box, dets[2].box)
              /\ {dets[1].confidence, dets[2].confidence} = {70, 90})
             => (Len(kept) = 1 /\ kept[1].confidence = 90)

C11_Witness ==
    /\ Suppressed
    /\ Len(Get(nms_in)) = 2
    /\ IouHalf(Get(nms_in)[1].box, Get(nms_in)[2].box)
    /\ Get(nms_in)[1].confidence = 70
    /\ Get(nms_in)[2].confidence = 90
    /\ Get(nms_out) = <<Get(nms_in)[2]>>

IouProbed == ~IsNone(iou_probe)

\* C13: the IoU of two boxes does not depend on their order, is 1 for two
\* identical boxes and 0 for two boxes that share no area, touching boxes
\* included.
C13_IouSymmetricOneZero ==
    IouProbed
    => LET p == Get(iou_probe)
       IN /\ p.ab = p.ba
          /\ p.a = p.b => (p.ab.num = p.ab.den /\ p.ab.den > 0)
          /\ InterCells(p.a, p.b) = 0 => p.ab.num = 0
          /\ p.ab.num * UnionCells(p.a, p.b) = InterCells(p.a, p.b) * p.ab.den

\* Two boxes that touch along an edge, and the value 0.
C13_Witness ==
    /\ IouProbed
    /\ Get(iou_probe).a.x_max = Get(iou_probe).b.x_min
    /\ Get(iou_probe).a.y_min = Get(iou_probe).b.y_min
    /\ Get(iou_probe).ab.num = 0
    /\ Get(iou_probe).ba.num = 0

----------------------------------------------------------------------------
(* C12, C14: the detector with no classifier, and the boxes it emits.      *)

Detected == ~IsNone(det_out)

\* C12: a detector none of whose classifiers loaded is constructed all the
\* same, with an empty ensemble, and every detect on it returns a result
\* with zero boxes and zero confidences.
C12_EmptyEnsembleDetectsNothing ==
    loadable = {}
    => /\ det_ready
       /\ cascades = <<>>
       /\ detection_count > 0 => Detected
       /\ Detected => (Get(det_out).boxes = <<>> /\ Get(det_out).confidences = <<>>)

C12_Witness ==
    /\ loadable = {}
    /\ detection_count = MaxDetects
    /\ Detected
    /\ Get(det_out).boxes = <<>>

----------------------------------------------------------------------------
(* C15-C18: observations on one call on the verifier.                      *)

Called(op) == ~IsNone(ver_call) /\ Get(ver_call).op = op

IsZero(r) == r.num = 0 /\ r.den > 0

\* C15: a template file that is missing or cannot be read leaves a
\* constructed verifier without a template, and a verifier without a
\* template answers every verify with (OTHER, 0.0).
C15_DisabledAlwaysOther ==
    /\ template_file.state \in {"missing", "unreadable"}
       => (ver_ready /\ IsNone(template_embedding))
    /\ (IsNone(template_embedding) /\ Called("verify"))
       => (/\ Get(ver_call).result.label = "OTHER"
           /\ IsZero(Get(ver_call).result.similarity))

C15_Witness ==
    /\ template_file.state = "unreadable"
    /\ Called("verify")
    /\ Get(ver_call).embedding = Some(<<3, 4>>)
    /\ Get(ver_call).result.label = "OTHER"
    /\ IsZero(Get(ver_call).result.similarity)

\* C16: with a template loaded, verify returns the similarity of the
\* embedding and the template, with the label ME exactly when that
\* similarity is at least the threshold, equality included, and OTHER
\* otherwise.
C16_LabelByInclusiveThreshold ==
    (~IsNone(template_embedding) /\ Called("verify"))
    => LET c == Get(ver_call)
           s == c.result.similarity
       IN /\ s = Similarity(c.embedding, template_embedding)
          /\ c.result.label \in {"ME", "OTHER"}
          /\ c.result.label = "ME"
             <=> s.num * similarity_threshold.den >= similarity_threshold.num * s.den

\* A similarity exactly at the threshold, labelled ME.
C16_Witness ==
    /\ ~IsNone(template_embedding)
    /\ Called("verify")
    /\ Get(ver_call).result.similarity.num * similarity_threshold.den
         = similarity_threshold.num * Get(ver_call).result.similarity.den
    /\ Get(ver_call).result.label = "ME"

\* C17: verify_batch returns one identity for each (embedding, box) pair,
\* in input order; entry i carries box i, embedding i and the label and
\* similarity verify returns for embedding i on its own.
C17_BatchIsPairwise ==
    Called("verify_batch")
    => LET c == Get(ver_call)
       IN /\ Len(c.result) = Min(Len(c.embeddings), Len(c.boxes))
          /\ \A i \in 1..Len(c.result) :
                LET alone == Verify(template_embedding, similarity_threshold,
                                    Some(c.embeddings[i]))
                IN /\ c.result[i].box = c.boxes[i]
                   /\ c.result[i].embedding = c.embeddings[i]
                   /\ c.result[i].label = alone.label
                   /\ c.result[i].similarity = alone.similarity

\* Two pairs with different boxes, the first labelled ME, the second OTHER.
C17_Witness ==
    /\ Called("verify_batch")
    /\ Len(Get(ver_call).result) = 2
    /\ Get(ver_call).boxes = <<BigA, BigB>>
    /\ Get(ver_call).result[1].label = "ME"
    /\ Get(ver_call).result[2].label = "OTHER"
    /\ Get(ver_call).result[2].box = BigB

\* C18: similarity(a, b) lies in [0, 1]; it is 0.0 when an argument is
\* missing or empty, and otherwise (cos + 1) / 2 for the cosine of the two
\* normalized vectors, a zero vector normalizing to itself.
C18_SimilarityInUnitInterval ==
    Called("similarity")
    => LET c == Get(ver_call)
           r == c.result
       IN /\ r.den > 0 /\ 0 <= r.num /\ r.num <= r.den
          /\ (IsNone(c.a) \/ IsNone(c.b)) => r.num = 0
          /\ (~IsNone(c.a) /\ ~IsNone(c.b))
             => LET u == Get(c.a)
                    v == Get(c.b)
                    nn == Norm(u) * Norm(v)
                IN /\ (u = <<>> \/ v = <<>>) => r.num = 0
                   /\ (u # <<>> /\ v # <<>> /\ nn = 0) => 2 * r.num = r.den
                   /\ (u # <<>> /\ v # <<>> /\ nn > 0)
                      => r.num * 2 * nn = (Dot(u, v) + nn) * r.den

\* Two opposite vectors, cosine -1 and similarity 0.
C18_Witness ==
    /\ Called("similarity")
    /\ Get(ver_call).a = Some(<<3, 4>>)
    /\ Get(ver_call).b = Some(<<-3, -4>>)
    /\ Get(ver_call).result.num = 0

----------------------------------------------------------------------------
(* C19: observations on the compute_embedding calls.                       *)

\* C19 as stated: two calls with the same face crop, on embedders in the
\* same state that use the handcrafted features, return the same embedding.
C19_DefaultEmbedDeterministic ==
    \A i \in 1..Len(emb_log) : \A j \in 1..Len(emb_log) :
        (/\ emb_log[i].crop = emb_log[j].crop
         /\ emb_log[i].before = emb_log[j].before
         /\ ~emb_log[i].before.use_dnn)
        => emb_log[i].out = emb_log[j].out

----------------------------------------------------------------------------
(* C20: observations on the shared frame slot.                             *)

CaptureAlive == capture.pc \notin {"unborn", "done"}

\* C20: the capture thread stores each frame it has read, whether or not
\* the previous one was read; it can always take its next step unless it
\* is waiting for the lock while the main thread holds it; and what the
\* main thread obtains is the frame stored last, none having been stored
\* after it.
C20_LatestFrameWins ==
    /\ capture.pc = "count" => cam.latest_frame = capture.frame
    /\ CaptureAlive
       => (ENABLED CaptureStep <=> ~(capture.pc = "lock" /\ cam.frame_lock = "main"))
    /\ main.pc = "got"
       => /\ Get(main.got).frame = cam.latest_frame
          /\ ~IsNone(cam.latest_frame)
             => (/\ Get(Get(main.got).frame) <= device.delivered
                 /\ Get(Get(main.got).frame) >= device.delivered - 1
                 /\ Get(Get(main.got).frame) = device.delivered - 1
                    => capture.pc = "lock")

\* The first frame was overwritten unread, and the main thread obtained
\* the second.
C20_Witness ==
    /\ main.pc = "got"
    /\ cam_obs.overwritten
    /\ Get(main.got).frame = Some(2)
    /\ device.delivered = 2

----------------------------------------------------------------------------
(* C31: the frame and the count that get_latest_frame returns.             *)

\* C31: get_latest_frame returns (None, -1) exactly while nothing has
\* been stored, and otherwise the stored frame with the count its store
\* brought frame_count to; frame_count is the number of stores, but for the
\* capture thread standing between lines 69 and 70 with the lock held, and
\* no step lowers it.
C31_FrameAndCountTogether ==
    /\ [](/\ IsNone(cam.latest_frame) <=> cam_obs.stores = 0
          /\ cam.frame_count = IF capture.pc = "count"
                                THEN cam_obs.stores - 1
                                ELSE cam_obs.stores
          /\ capture.pc = "count" => cam.frame_lock = "capture"
          /\ main.pc = "got"
             => /\ IsNone(Get(main.got).frame) <=> cam_obs.stores = 0
                /\ IsNone(Get(main.got).frame) => Get(main.got).frame_count = -1
                /\ ~IsNone(Get(main.got).frame)
                   => /\ Get(main.got).frame_count = Get(Get(main.got).frame)
                      /\ Get(main.got).frame_count = cam_obs.stores)
    /\ [][cam.frame_count' >= cam.frame_count]_vars

\* The main thread holds the second frame with the count 2 while the
\* capture thread waits for the lock with the third.
C31_Witness ==
    /\ main.pc = "got"
    /\ Get(main.got) = [frame |-> Some(2), frame_count |-> 2]
    /\ capture.pc = "lock"
    /\ capture.frame = Some(3)

----------------------------------------------------------------------------
(* C25, C26: what one tick does to the debounce fields.                    *)

\* The engine's fields as the last call found them.
Before == IF Len(log) = 1 THEN FreshEngine ELSE log[Len(log) - 1].after

\* C25: a risky tick adds exactly 1 to risk_counter, sets safe_frame_counter
\* to 0 and safe_start_time to unset, never turns privacy_on from true to
\* false, and leaves privacy_on as it was while risk_counter is below
\* debounce_on_frames.
C25_RiskyTickCounts ==
    (Decided /\ RiskyTick(Last))
    => /\ risk_counter = Before.risk_counter + 1
       /\ safe_frame_counter = 0
       /\ IsNone(safe_start_time)
       /\ Before.privacy_on => privacy_on
       /\ risk_counter < params.debounce_on_frames => privacy_on = Before.privacy_on
       /\ Last.after = Self

\* A risky tick that found the blur on, and a run of safe ticks under way.
C25_Witness ==
    /\ Len(log) >= 3
    /\ RiskyTick(Last)
    /\ Before.privacy_on
    /\ Before.safe_frame_counter > 0
    /\ ~IsNone(Before.safe_start_time)
    /\ privacy_on
    /\ risk_counter = 1

\* The start of the safe period a safe tick works with.
SafeStart == IF IsNone(Before.safe_start_time) THEN Last.t1 ELSE Get(Before.safe_start_time)

OffMet ==
    /\ Last.t2 - SafeStart >= params.debounce_off_seconds
    /\ Before.safe_frame_counter + 1 >= params.debounce_off_frames

\* C26: a safe tick sets risk_counter to 0, counts one more safe frame and
\* sets safe_start_time to the tick's time only if it was unset; while the
\* off-condition is not met, privacy_on stays as it was and the reason gives
\* the remaining time and frames; when it is met, privacy_on becomes false
\* and safe_frame_counter 0.
C26_SafeTickCounts ==
    (Decided /\ SafeTick(Last))
    => /\ risk_counter = 0
       /\ safe_start_time = Some(SafeStart)
       /\ ~OffMet
          => /\ safe_frame_counter = Before.safe_frame_counter + 1
             /\ privacy_on = Before.privacy_on
             /\ Last.decision.privacy_on = Before.privacy_on
             /\ Last.decision.reason.kind = "Holding"
             /\ LET remaining == Max(0, params.debounce_off_seconds - (Last.t2 - SafeStart))
                IN /\ 10 * Last.decision.reason.a - remaining <= 5
                   /\ remaining - 10 * Last.decision.reason.a <= 5
             /\ Last.decision.reason.b
                  = Max(0, params.debounce_off_frames - (Before.safe_frame_counter + 1))
       /\ OffMet
          => /\ ~privacy_on
             /\ ~Last.decision.privacy_on
             /\ safe_frame_counter = 0

\* A safe tick that found the safe period started, short of the
\* off-condition, the blur on.
C26_Witness ==
    /\ Decided
    /\ SafeTick(Last)
    /\ Len(log) >= 2
    /\ ~IsNone(Before.safe_start_time)
    /\ Get(Before.safe_start_time) < Last.t1
    /\ ~OffMet
    /\ privacy_on
    /\ safe_frame_counter = 2

----------------------------------------------------------------------------
(* C27-C29: the last detect, seen from the rectangles the classifiers      *)
(* reported and the result returned.                                        *)

\* Every rectangle reported in the last detect, with its classifier.
RawFaces ==
    UNION { { [cascade |-> c, rect |-> Get(det_in)[c].faces[k]] :
                k \in 1..Len(Get(det_in)[c].faces) } :
            c \in DOMAIN Get(det_in) }

FrameArea == det_frame.w * det_frame.h

\* The rectangle covers at least 0.2% and at most 50% of the frame.
InSizeRange(r) ==
    /\ 1000 * r.fw * r.fh >= 2 * FrameArea
    /\ 2 * r.fw * r.fh <= FrameArea

\* The part of the rectangle inside the frame.
Clamped(r) ==
    [x_min |-> Max(0, r.x), y_min |-> Max(0, r.y),
     x_max |-> Min(det_frame.w, r.x + r.fw), y_max |-> Min(det_frame.h, r.y + r.fh)]

\* The rectangle is in the result, or overlaps a box of the result by more
\* than 0.15.
Accounted(r) ==
    \E i \in 1..Len(Get(det_out).boxes) :
        \/ Get(det_out).boxes[i] = Clamped(r)
        \/ ~IouAtMost(Get(det_out).boxes[i], Clamped(r))

\* The rectangle lies inside the frame.
Inside(r) ==
    r.x >= 0 /\ r.y >= 0 /\ r.x + r.fw <= det_frame.w /\ r.y + r.fh <= det_frame.h

SomeRaised == \E c \in DOMAIN Get(det_in) : Get(det_in)[c].raised

\* C28: the ensemble is the loaded classifiers for good; every detect calls
\* each of them, those that raised before included, and returns a result;
\* when one raises, every rectangle of the others that passes the size
\* filter still reaches suppression, and every box is one of theirs.
C28_RaiseDropsOneClassifier ==
    /\ { cascades[i] : i \in 1..Len(cascades) } = loadable
    /\ detection_count > 0 => Detected
    /\ Detected
       => /\ DOMAIN Get(det_in) = loadable
          /\ det_raised \subseteq DOMAIN Get(det_in)
          /\ SomeRaised
             => /\ \A f \in RawFaces : InSizeRange(f.rect) => Accounted(f.rect)
                /\ \A i \in 1..Len(Get(det_out).boxes) :
                      \E f \in RawFaces :
                         /\ ~Get(det_in)[f.cascade].raised
                         /\ Clamped(f.rect) = Get(det_out).boxes[i]

\* The frontal classifier raised in the first detect; in the second the
\* profile classifier raises and a face of the frontal one is returned.
C28_Witness ==
    /\ Detected
    /\ loadable = {"frontal", "profile"}
    /\ detection_count = 2
    /\ det_raised = {"frontal"}
    /\ Get(det_in)["profile"].raised
    /\ ~Get(det_in)["frontal"].raised
    /\ Len(Get(det_out).boxes) = 1
    /\ Get(det_out).boxes[1] = Clamped(Get(det_in)["frontal"].faces[1])

\* The confidence of a rectangle, times 100 * w * h: 0.7 or 0.6 by the
\* classifier, plus 0.2 * min(1, 100 * area ratio).
ExpectedConfidence(f) ==
    (IF f.cascade = "frontal" THEN 70 ELSE 60) * FrameArea
    + 20 * Min(FrameArea, 100 * f.rect.fw * f.rect.fh)

\* C29: a result has as many confidences as boxes; entry i is the box and
\* the confidence of one same reported rectangle, the confidence being
\* base + min(1, area_ratio * 100) * 0.2 with base 0.7 for the frontal and
\* 0.6 for the profile classifier, and within [0, 1].
C29_ConfidencesPaired ==
    Detected
    => /\ Len(Get(det_out).boxes) = Len(Get(det_out).confidences)
       /\ \A i \in 1..Len(Get(det_out).confidences) :
             /\ \E f \in RawFaces :
                   /\ Clamped(f.rect) = Get(det_out).boxes[i]
                   /\ ExpectedConfidence(f) = Get(det_out).confidences[i]
             /\ 0 <= Get(det_out).confidences[i]
             /\ Get(det_out).confidences[i] <= 100 * FrameArea

\* Two boxes: a profile face of 0.2% with confidence 0.64 after a frontal
\* face of 50% with confidence 0.9.
C29_Witness ==
    /\ Detected
    /\ Len(Get(det_out).boxes) = 2
    /\ Get(det_out).confidences[1] = 90 * FrameArea
    /\ Get(det_out).confidences[2] = 64 * FrameArea
    /\ Get(det_out).boxes[1].x_max = det_frame.w
    /\ 1000 * BoxArea(Get(det_out).boxes[2]) = 2 * FrameArea

----------------------------------------------------------------------------
(* C30: the strategy flag of the embedders over the compute_embedding      *)
(* calls.                                                                   *)

\* The flag right after FaceEmbedder(): set when the model files are there
\* and load.
ChosenAtInit == model_files = "ok"

\* The call went to the network and ended in the handcrafted features.
FellBack(c) == c.before.use_dnn /\ c.strategy = "feature"

\* C30 as stated: after any sequence of compute_embedding calls use_dnn has
\* the value it had right after construction.
C30_StrategyFixedAtInit ==
    \A id \in DOMAIN embedders : embedders[id].use_dnn = ChosenAtInit

\* C30 amended: use_dnn starts as chosen at construction and changes only
\* in a call whose network pass fails, which clears it; it is never set
\* again, and every call is served by the network only while it is set.
C30_StrategyOnlyCleared ==
    /\ \A i \in 1..Len(emb_log) :
          /\ emb_log[i].after.use_dnn = (emb_log[i].before.use_dnn /\ ~FellBack(emb_log[i]))
          /\ emb_log[i].strategy = "dnn" => emb_log[i].before.use_dnn
          /\ emb_log[i].before.use_dnn => ChosenAtInit
          /\ \A j \in 1..Len(emb_log) :
                (i < j /\ emb_log[i].id = emb_log[j].id /\ ~emb_log[i].after.use_dnn)
                => ~emb_log[j].before.use_dnn
    /\ \A id \in DOMAIN embedders :
          embedders[id].use_dnn
          = (ChosenAtInit /\ \A i \in 1..Len(emb_log) :
                                emb_log[i].id = id => ~FellBack(emb_log[i]))

\* One embedder with the model loaded: a call served by the network, a
\* call whose network pass fails, and a call served by the handcrafted
\* features from the start; the other embedder still uses the network.
C30_Witness ==
    /\ Len(emb_log) = 3
    /\ \A i \in 1..3 : emb_log[i].id = 1
    /\ emb_log[1].strategy = "dnn" /\ emb_log[1].after.use_dnn
    /\ FellBack(emb_log[2])
    /\ ~emb_log[3].before.use_dnn /\ emb_log[3].strategy = "feature"
    /\ ~embedders[1].use_dnn
    /\ embedders[2].use_dnn

----------------------------------------------------------------------------
(* C21: the end of the capture thread and of stop().                        *)

\* stop() has cleared the running flag.
Stopping == main.pc \in {"join", "release", "stopped"}

\* C21: once stop() has cleared the flag the loop does not pass its while
\* test again; if no read stays pending for ever, the loop ends; the join
\* of stop() can always return, the loop ended or not, and stop() returns.
C21_ShutdownCooperativeBounded ==
    /\ [](Stopping => ~cam.running)
    /\ [][Stopping => ~(capture.pc = "while" /\ capture'.pc = "read")]_vars
    /\ []<>(capture.pc # "read") => (Stopping ~> capture.pc = "done")
    /\ [](main.pc = "join" => ENABLED StopJoin)
    /\ (Stopping ~> main.pc = "stopped")

\* stop() returned while the loop was inside a read, and the loop has
\* ended since.
C21_Witness ==
    /\ main.pc = "stopped"
    /\ cam_obs.at_return = Some("read")
    /\ capture.pc = "done"

----------------------------------------------------------------------------
(* C38: the device after stop() has released it.                            *)

\* The capture thread makes its call of self.cap.read().
ReadBegins == capture.pc = "read" /\ capture'.pc # "read"

\* C38: no call of self.cap.read() is made once stop() has released the
\* device.
C38_NoReadAfterRelease ==
    [][cam.cap = "released" => ~ReadBegins]_vars

----------------------------------------------------------------------------
(* C22, C23: observations on the pipeline driver.                           *)

\* C22: with a device that does not open, start() returns False leaving
\* the capture thread unborn and the running flag clear, and main() returns
\* from there: it never enters its loop, detects nothing, decides nothing
\* and touches no overlay; main() returns before its loop in no other case.
C22_StartFailureSkipsLoop ==
    /\ ~device.openable
       => /\ main.pc \in {"new", "failed"}
          /\ capture.pc = "unborn"
          /\ ~cam.running
          /\ IsNone(cam.latest_frame)
          /\ pipe.pc \in {"start", "returned"}
          /\ pipe.detection_count = 0
          /\ pipe.frame_counter = 0
          /\ decision_history = <<>>
          /\ overlay.ticks = <<>>
          /\ overlay.calls = 0
    /\ pipe.pc = "returned" => main.pc = "failed" /\ ~device.openable
    /\ device.openable => main.pc # "failed"

\* The device did not open and main() has returned.
C22_Witness ==
    /\ ~device.openable
    /\ main.pc = "failed"
    /\ cam.cap = "unopened"
    /\ pipe.pc = "returned"

\* privacy_on of the decision before tick i; off before the first.
PreviousOn(i) == IF i = 1 THEN FALSE ELSE overlay.ticks[i - 1].on

\* C23: at every tick the overlay is shown exactly when the decision has
\* privacy_on true and the previous tick's had it false (the overlay starts
\* hidden, so the first tick counts as coming after an off decision), hidden
\* exactly on the opposite change, and left alone when the two are equal;
\* no call is made outside a tick, and one decision is recorded per tick.
C23_OverlayOnTransitionsOnly ==
    /\ \A i \in 1..Len(overlay.ticks) :
          LET t == overlay.ticks[i]
          IN /\ t.call = "show" <=> t.on /\ ~PreviousOn(i)
             /\ t.call = "hide" <=> ~t.on /\ PreviousOn(i)
             /\ t.call = "none" <=> t.on = PreviousOn(i)
    /\ overlay.calls
       = Cardinality({ i \in 1..Len(overlay.ticks) : overlay.ticks[i].call # "none" })
    /\ Len(overlay.ticks) = Len(decision_history)
    /\ \A i \in 1..Len(overlay.ticks) :
          overlay.ticks[i].on = decision_history[i][2].privacy_on
    /\ overlay.ticks # <<>>
       => overlay.visible = overlay.ticks[Len(overlay.ticks)].on

\* Three ticks: the blur goes on and the overlay is shown, the blur goes
\* off and the overlay is hidden, the blur stays off and nothing is called.
C23_Witness ==
    /\ Len(overlay.ticks) = 3
    /\ overlay.ticks[1] = [on |-> TRUE, call |-> "show"]
    /\ overlay.ticks[2] = [on |-> FALSE, call |-> "hide"]
    /\ overlay.ticks[3] = [on |-> FALSE, call |-> "none"]
    /\ overlay.calls = 2
    /\ ~overlay.visible

----------------------------------------------------------------------------
(* C39: the paused driver, and the frames on which it ticks.                *)

\* Since the pass that paused the driver: no detection, no decision, no
\* call on the overlay.
NothingEvaluatedSincePause ==
    LET s == Get(pipe.at_pause)
    IN /\ pipe.detection_count = s.detection_count
       /\ Len(decision_history) = s.history
       /\ Len(overlay.ticks) = s.detection_count
       /\ overlay.calls = s.calls
       /\ overlay.visible = s.visible

\* Every tick was made on a frame counter that is a multiple of the
\* detection interval, one tick per detection.
TicksOnMultiples ==
    /\ Len(pipe.tick_frames) = pipe.detection_count
    /\ \A i \in 1..Len(pipe.tick_frames) :
          /\ pipe.tick_frames[i] % pipe.detect_interval = 0
          /\ pipe.tick_frames[i] < pipe.frame_counter \/ pipe.pc # "loop"
          /\ i > 1 => pipe.tick_frames[i - 1] < pipe.tick_frames[i]

\* C39 as stated: while the driver is paused nothing is evaluated and the
\* engine is as the pausing pass left it.
C39_PauseFreezesEngine ==
    /\ pipe.paused <=> ~IsNone(pipe.at_pause)
    /\ pipe.paused => NothingEvaluatedSincePause /\ Self = Get(pipe.at_pause).e
    /\ TicksOnMultiples

\* C39: while the driver is paused nothing is evaluated, and the engine is
\* as the pausing pass left it or, 'r' having been pressed since, as
\* reset() leaves it; ticks are made on multiples of the interval only.
C39_PauseFreezesAllButReset ==
    /\ pipe.paused <=> ~IsNone(pipe.at_pause)
    /\ pipe.paused
       => /\ NothingEvaluatedSincePause
          /\ Self \in {Get(pipe.at_pause).e, FreshEngine}
    /\ TicksOnMultiples

\* The driver was paused on its first frame with the blur on and the
\* overlay shown; two frames went by since, and nothing has changed.
C39_Witness ==
    /\ pipe.paused
    /\ pipe.detect_interval = 1
    /\ Get(pipe.at_pause).frame_counter = 0
    /\ pipe.frame_counter = 3
    /\ privacy_on /\ Self = Get(pipe.at_pause).e
    /\ overlay.visible
    /\ pipe.tick_frames = <<0>>

----------------------------------------------------------------------------
(* C24: the template the enrollment flow saves.                             *)

\* C24 as stated: a template is saved only when at least ten samples were
\* captured.
C24_TemplateNeedsTenSamples ==
    ~IsNone(enroll.template) => Get(enroll.template).mean_of >= EnoughSamples

----------------------------------------------------------------------------
(* C33: the two debounce counters and the start of the safe period.         *)

\* C33: after any decide and reset calls neither counter is negative, at
\* most one of them is positive, safe_start_time is unset while
\* risk_counter is positive and set while safe_frame_counter is positive.
C33_CountersExclusive ==
    /\ risk_counter >= 0
    /\ safe_frame_counter >= 0
    /\ ~(risk_counter > 0 /\ safe_frame_counter > 0)
    /\ risk_counter > 0 => IsNone(safe_start_time)
    /\ safe_frame_counter > 0 => ~IsNone(safe_start_time)

\* A safe tick right after a risky one: the risky count was positive with
\* no safe period, now the safe count is positive and the period has begun.
C33_Witness ==
    /\ Len(log) >= 2
    /\ Last.kind = "decide"
    /\ Before.risk_counter > 0
    /\ IsNone(Before.safe_start_time)
    /\ risk_counter = 0
    /\ safe_frame_counter > 0
    /\ ~IsNone(safe_start_time)

----------------------------------------------------------------------------
(* C34: the direction in which privacy_on changes.                          *)

\* The number of risky ticks at the end of the log, with no safe tick and
\* no reset() after them.
RiskyRunLength ==
    LET S == { n \in 0..Len(log) :
                 \A k \in (Len(log) - n + 1)..Len(log) : RiskyTick(log[k]) }
    IN CHOOSE n \in S : \A m \in S : m <= n

\* C34: a safe tick does not turn privacy_on on and a risky tick does not
\* turn it off; risk_counter is the length of the run of risky ticks the
\* log ends with; a tick that turns privacy_on on ends a run of at least
\* debounce_on_frames risky ticks.
C34_HysteresisDirection ==
    /\ risk_counter = RiskyRunLength
    /\ Decided
       => /\ SafeTick(Last) => (Last.decision.privacy_on => Last.before)
          /\ RiskyTick(Last) => (Last.before => Last.decision.privacy_on)
          /\ Last.decision.privacy_on = privacy_on
          /\ (~Last.before /\ Last.decision.privacy_on)
             => /\ RiskyRunLength >= params.debounce_on_frames
                /\ \A k \in (Len(log) - params.debounce_on_frames + 1)..Len(log) :
                      k >= 1 /\ RiskyTick(log[k])

\* The blur goes on at the second of two risky ticks that follow a safe
\* tick or a reset(), itself preceded by a risky tick.
C34_Witness ==
    /\ Len(log) = 4
    /\ params.debounce_on_frames = 2
    /\ RiskyTick(log[1])
    /\ ~RiskyTick(log[2])
    /\ RiskyTick(log[3])
    /\ RiskyTick(log[4])
    /\ ~log[3].decision.privacy_on
    /\ ~Last.before
    /\ privacy_on

----------------------------------------------------------------------------
(* C35: unverified mode with the default face_count_threshold.              *)

\* The tick was counted in unverified mode.
UnverifiedEntry(en) ==
    en.kind = "decide"
    /\ ~(params.use_identity_verification /\ ~IsNone(en.inp.identities))

\* The boxes of the tick whose area ratio reaches area_ratio_threshold.
Qualifying(en) == Cardinality(VisibleBoxes(en.inp.boxes))

\* C35: with face_count_threshold at its default of 2, an unverified tick
\* with at most two qualifying boxes is not risky and leaves risk_counter
\* at 0; an engine fed only such ticks never has privacy_on true; a tick
\* that turns privacy_on on ends debounce_on_frames consecutive ticks with
\* at least three qualifying boxes each.
C35_TwoFacesNeverRisky ==
    params.face_count_threshold = DefaultFaceCountThreshold
    => /\ \A i \in 1..Len(log) :
             (UnverifiedEntry(log[i]) /\ Qualifying(log[i]) <= 2)
             => /\ ~RiskyTick(log[i])
                /\ log[i].after.risk_counter = 0
                /\ log[i].decision.privacy_on => log[i].before
       /\ (\A i \in 1..Len(log) :
              log[i].kind = "decide" => UnverifiedEntry(log[i]) /\ Qualifying(log[i]) <= 2)
          => ~privacy_on
       /\ (Decided /\ ~params.use_identity_verification /\ ~Last.before /\ privacy_on)
          => \A k \in (Len(log) - params.debounce_on_frames + 1)..Len(log) :
                k >= 1 /\ log[k].kind = "decide" /\ Qualifying(log[k]) >= 3

\* The default engine after five ticks with two qualifying faces each:
\* the blur has stayed off.
C35_Witness ==
    /\ params = DefaultParams
    /\ Len(log) = 5
    /\ \A i \in 1..5 : UnverifiedEntry(log[i]) /\ Qualifying(log[i]) = 2
    /\ \A i \in 1..5 : log[i].decision.other_face_count = 1
    /\ ~privacy_on
    /\ risk_counter = 0

----------------------------------------------------------------------------
(* C37: what reset() leaves alone.                                          *)

\* The step is a reset() call.
ResetStep == Len(log') = Len(log) + 1 /\ log'[Len(log')].kind = "reset"

\* C37: a reset() call leaves the decision history and the configured
\* thresholds (face_count_threshold, area_ratio_threshold, the debounce
\* parameters, use_identity_verification) as they were; of the engine's
\* fields it changes none but privacy_on, risk_counter,
\* safe_frame_counter and safe_start_time.
C37_ResetFrame ==
    [][ResetStep => /\ decision_history' = decision_history
                    /\ params' = params]_vars

\* A reset() that found the blur on, a safe period begun and two
\* decisions in the history, which are still there.
C37_Witness ==
    /\ Len(log) >= 3
    /\ Last.kind = "reset"
    /\ Last.before
    /\ ~privacy_on
    /\ Len(decision_history) = Len(log) - 1
    /\ decision_history[Len(decision_history)][2].privacy_on
    /\ params # DefaultParams

----------------------------------------------------------------------------
(* C36: the blur is not held for ever.                                      *)

\* The step is a safe tick.
SafeStep ==
    /\ Len(log') = Len(log) + 1
    /\ SafeTick(log'[Len(log')])

\* The ticks after the lead are all safe, and the clock advances between
\* them.
SafeFromLeadOn ==
    /\ driver.mode = "scenario" /\ driver.dt > 0
    /\ \A i \in 1..Len(log) : i > driver.lead => SafeTick(log[i])

\* C36: when every tick from some tick on is safe and the clock advances
\* between ticks, privacy_on, once true, becomes false, and a safe tick
\* that finds it false leaves it false.
C36_BlurReleasedEventually ==
    /\ [](SafeFromLeadOn)
    /\ (privacy_on ~> ~privacy_on)
    /\ [][(~privacy_on /\ SafeStep) => ~privacy_on']_vars

\* Safe ticks 10 ms apart: the blur went off at an earlier tick and is
\* still off twenty safe ticks later.
C36_Witness ==
    /\ driver.name = "burst"
    /\ \E i \in 1..Len(log) :
          /\ log[i].before /\ ~log[i].decision.privacy_on
          /\ Len(log) = i + 20
    /\ ~privacy_on
    /\ SafeTick(Last)

====
